---- MODULE Spec2Model ----
(***************************************************************************)
(* Levython: bytecode Compiler, FastVM and tree-walking Interpreter.       *)
(*                                                                         *)
(* A program is a syntax tree (the shape Parser::parse produces).  The     *)
(* Compiler turns it into a Chunk (bytes + constant pool), FastVM::execute *)
(* runs the chunk one opcode handler at a time, and Interpreter::evaluate  *)
(* walks the same tree.  Byte offsets are 0-based as in the source; TLA+   *)
(* sequences are 1-based, so byte i of a chunk is code[i + 1].             *)
(***************************************************************************)
EXTENDS Integers, Sequences, FiniteSets, TLC

(***************************************************************************)
(* Capacities.  The source sizes the frame array at 65536 and the operand  *)
(* stack at 262144 = 4 * 65536 slots; the model keeps the 4:1 ratio and    *)
(* the "frame_count >= FRAMES_MAX - 1" check and scales the frame array.   *)
(***************************************************************************)
FRAMES_MAX == 8
STACK_MAX == 4 * FRAMES_MAX
ITERS_MAX == 4
TRY_MAX == 4

(***************************************************************************)
(* enum class OpCode (numbering is the enumerator order).                  *)
(***************************************************************************)
OP_CONST == 0
OP_CONST_INT == 1
OP_NONE == 2
OP_TRUE == 3
OP_FALSE == 4
OP_POP == 5
OP_ADD == 7
OP_SUB == 8
OP_MUL == 9
OP_DIV == 10
OP_MOD == 11
OP_POW == 12
OP_NEG == 13
OP_EQ == 14
OP_NE == 15
OP_LT == 16
OP_GT == 17
OP_LE == 18
OP_GE == 19
OP_NOT == 20
OP_AND == 21
OP_OR == 22
OP_GET_GLOBAL == 23
OP_SET_GLOBAL == 24
OP_DEFINE_GLOBAL == 25
OP_GET_LOCAL == 26
OP_SET_LOCAL == 27
OP_JUMP == 28
OP_JUMP_IF_FALSE == 29
OP_LOOP == 30
OP_CALL == 31
OP_RETURN == 32
OP_GET_INDEX == 33
OP_SET_INDEX == 34
OP_ITER_INIT == 35
OP_ITER_NEXT == 36
OP_BUILTIN_SAY == 37
OP_BUILTIN_LEN == 38
OP_BUILTIN_RANGE == 39
OP_BUILTIN_APPEND == 40
OP_BUILD_LIST == 42
OP_BUILTIN_STR == 72
OP_BUILTIN_READ_FILE == 89
OP_TRY == 102
OP_CATCH == 103
OP_THROW == 104

(***************************************************************************)
(* ASTNode: type, token.type, value, children, params.  `num` is the value *)
(* of an integer NUMBER lexeme (std::stol of token.lexeme).                *)
(***************************************************************************)
Node(ty, tok, val, n, kids, ps) ==
    [type |-> ty, token |-> tok, value |-> val, num |-> n,
     children |-> kids, params |-> ps]

Num(n) == Node("LITERAL", "NUMBER", "", n, <<>>, <<>>)
Str(text) == Node("LITERAL", "STRING", text, 0, <<>>, <<>>)
NoneLit == Node("LITERAL", "NONE", "none", 0, <<>>, <<>>)
Var(name) == Node("VARIABLE", "IDENTIFIER", name, 0, <<>>, <<>>)
Neg(e) == Node("UNARY", "MINUS", "-", 0, <<e>>, <<>>)
TokOf(op) ==
    CASE op = "+" -> "PLUS" [] op = "-" -> "MINUS" [] op = "*" -> "MULTIPLY"
      [] op = "/" -> "DIVIDE" [] op = "%" -> "MOD" [] op = "==" -> "EQ"
      [] op = "!=" -> "NE" [] op = "<" -> "LT" [] op = ">" -> "GT"
      [] op = "<=" -> "LE" [] op = ">=" -> "GE"
Bin(op, l, r) == Node("BINARY", TokOf(op), op, 0, <<l, r>>, <<>>)
Assign(name, e) == Node("ASSIGN", "ASSIGN", name, 0, <<Var(name), e>>, <<>>)
CompoundAssign(name, op, e) ==
    Node("COMPOUND_ASSIGN", "PLUS_ASSIGN", op, 0, <<Var(name), e>>, <<>>)
Say(e) == Node("SAY", "SAY", "", 0, <<e>>, <<>>)
Block(stmts) == Node("BLOCK", "LBRACE", "", 0, stmts, <<>>)
Program(stmts) == Node("PROGRAM", "UNKNOWN", "", 0, stmts, <<>>)
If(c, t) == Node("IF", "IF", "", 0, <<c, t>>, <<>>)
IfElse(c, t, e) == Node("IF", "IF", "", 0, <<c, t, e>>, <<>>)
While(c, b) == Node("WHILE", "WHILE", "", 0, <<c, b>>, <<>>)
For(v, it, b) == Node("FOR", "FOR", v, 0, <<it, b>>, <<>>)
Repeat(n, b) == Node("REPEAT", "REPEAT", "", 0, <<n, b>>, <<>>)
Try(t, c) == Node("TRY", "TRY", "", 0, <<t, c>>, <<>>)
Break == Node("BREAK", "BREAK", "break", 0, <<>>, <<>>)
Continue == Node("CONTINUE", "CONTINUE", "continue", 0, <<>>, <<>>)
Throw == Node("THROW_STMT", "THROW", "", 0, <<>>, <<>>)
Func(name, ps, body) == Node("FUNCTION", "IDENTIFIER", name, 0, <<body>>, ps)
Call(name, args) == Node("CALL", "LPAREN", "", 0, <<Var(name)>> \o args, <<>>)
Return(e) == Node("RETURN", "RETURN_TOKEN", "", 0, <<e>>, <<>>)
ListLit(elems) == Node("LITERAL", "LBRACKET", "", 0, elems, <<>>)
Index(c, i) == Node("INDEX", "LBRACKET", "", 0, <<c, i>>, <<>>)
AssignIndex(c, i, e) == Node("ASSIGN", "ASSIGN", "", 0, <<Index(c, i), e>>, <<>>)

(***************************************************************************)
(* class Value as the Compiler stores it in a constant pool.               *)
(***************************************************************************)
IntegerValue(i) == [type |-> "INTEGER", integer |-> i]
StringValue(s) == [type |-> "STRING", string |-> s]
FunctionValue(ch, nm, ar) ==
    [type |-> "FUNCTION", chunk |-> ch, name |-> nm, arity |-> ar]

(***************************************************************************)
(* class Compiler.  The state is the chunk being written (code, constants) *)
(* plus locals, scope_depth and loops.  `marks` is not in the source: it   *)
(* is the statement table of the chunk (for every statement of a           *)
(* PROGRAM/BLOCK its kind, its first byte, the first byte after it and    *)
(* the number of locals the compiler tracks where it starts),              *)
(* kept only so that properties can speak about statement boundaries.      *)
(* `error` stands for the std::runtime_error thrown by break/continue      *)
(* outside a loop: once set, no further statement is compiled.             *)
(***************************************************************************)
\* a compiler that starts with a loop on its loop stack
NewCompilerInLoop ==
    [code |-> <<>>, constants |-> <<>>, locals |-> <<>>, scope_depth |-> 0,
     loops |-> <<[start |-> 0, breaks |-> <<>>]>>, marks |-> {}, error |-> FALSE]
NewCompiler ==
    [code |-> <<>>, constants |-> <<>>, locals |-> <<>>, scope_depth |-> 0,
     loops |-> <<>>, marks |-> {}, error |-> FALSE]

Chunk(cs) == [code |-> cs.code, constants |-> cs.constants, marks |-> cs.marks]

emit(cs, op) == [cs EXCEPT !.code = Append(@, op)]
emit_byte(cs, b) == [cs EXCEPT !.code = Append(@, b % 256)]
emit_short(cs, s) == emit_byte(emit_byte(cs, s % 256), (s \div 256) % 256)
add_constant(cs, v) == [cs EXCEPT !.constants = Append(@, v)]
emit_constant(cs, v) ==
    emit_short(emit(add_constant(cs, v), OP_CONST), Len(cs.constants))
\* emit_jump returns chunk->code.size() - 2, i.e. Len(code) - 2 of the result
emit_jump(cs, op) == emit_byte(emit_byte(emit(cs, op), 255), 255)
\* the two bytes patch_jump writes at `offset` when the code has `size` bytes
jump_operand(size, offset) ==
    LET jump == size - offset - 2
    IN  <<jump % 256, (jump \div 256) % 256>>
patch_jump(cs, offset) ==
    LET b == jump_operand(Len(cs.code), offset)
    IN  [cs EXCEPT !.code = [@ EXCEPT ![offset + 1] = b[1], ![offset + 2] = b[2]]]
\* the two bytes emit_loop writes after the OP_LOOP that made the code `size` bytes
loop_operand(size, start) ==
    LET offset == size - start + 2
    IN  <<offset % 256, (offset \div 256) % 256>>
emit_loop(cs, start) ==
    LET c1 == emit(cs, OP_LOOP)
        b == loop_operand(Len(c1.code), start)
    IN  emit_byte(emit_byte(c1, b[1]), b[2])
begin_scope(cs) == [cs EXCEPT !.scope_depth = @ + 1]

RECURSIVE PopLocals(_)
PopLocals(cs) ==
    IF Len(cs.locals) > 0 /\ cs.locals[Len(cs.locals)].depth > cs.scope_depth
    THEN PopLocals([emit(cs, OP_POP) EXCEPT
                       !.locals = SubSeq(@, 1, Len(@) - 1)])
    ELSE cs
end_scope(cs) == PopLocals([cs EXCEPT !.scope_depth = @ - 1])

RECURSIVE ResolveFrom(_, _, _)
ResolveFrom(locals, name, i) ==
    IF i < 1 THEN -1
    ELSE IF locals[i].name = name THEN i - 1
    ELSE ResolveFrom(locals, name, i - 1)
resolve_local(cs, name) == ResolveFrom(cs.locals, name, Len(cs.locals))

RECURSIVE PatchAll(_, _, _)
PatchAll(cs, breaks, i) ==
    IF i > Len(breaks) THEN cs
    ELSE PatchAll(patch_jump(cs, breaks[i]), breaks, i + 1)

\* the GET of a variable: OP_GET_LOCAL slot, or OP_GET_GLOBAL idx16
EmitGet(cs, name) ==
    LET slot == resolve_local(cs, name)
    IN  IF slot # -1 THEN emit_byte(emit(cs, OP_GET_LOCAL), slot)
        ELSE emit_short(emit(add_constant(cs, StringValue(name)), OP_GET_GLOBAL),
                        Len(cs.constants))
\* the SET of a variable: OP_SET_LOCAL slot, or OP_SET_GLOBAL idx16
EmitSet(cs, name) ==
    LET slot == resolve_local(cs, name)
    IN  IF slot # -1 THEN emit_byte(emit(cs, OP_SET_LOCAL), slot)
        ELSE emit_short(emit(add_constant(cs, StringValue(name)), OP_SET_GLOBAL),
                        Len(cs.constants))

IsIntLiteral(n) == n.type = "LITERAL" /\ n.token = "NUMBER"

\* C++ integer division and remainder truncate toward zero
TruncDiv(a, b) ==
    IF (a >= 0) = (b > 0) THEN (IF a >= 0 THEN a ELSE -a) \div (IF b > 0 THEN b ELSE -b)
    ELSE -((IF a >= 0 THEN a ELSE -a) \div (IF b > 0 THEN b ELSE -b))
TruncMod(a, b) == a - b * TruncDiv(a, b)

\* the constant-folding switch of case BINARY: [folded, result]
Fold(tok, left, right) ==
    CASE tok = "PLUS" -> [folded |-> TRUE, result |-> left + right]
      [] tok = "MINUS" -> [folded |-> TRUE, result |-> left - right]
      [] tok = "MULTIPLY" -> [folded |-> TRUE, result |-> left * right]
      [] tok = "DIVIDE" ->
            IF right = 0 THEN [folded |-> FALSE, result |-> 0]
            ELSE [folded |-> TRUE, result |-> TruncDiv(left, right)]
      [] tok = "MOD" ->
            IF right = 0 THEN [folded |-> FALSE, result |-> 0]
            ELSE [folded |-> TRUE, result |-> TruncMod(left, right)]
      [] OTHER -> [folded |-> FALSE, result |-> 0]

BinaryOp(tok) ==
    CASE tok = "PLUS" -> OP_ADD [] tok = "MINUS" -> OP_SUB
      [] tok = "MULTIPLY" -> OP_MUL [] tok = "DIVIDE" -> OP_DIV
      [] tok = "MOD" -> OP_MOD [] tok = "POWER" -> OP_POW
      [] tok = "EQ" -> OP_EQ [] tok = "NE" -> OP_NE
      [] tok = "LT" -> OP_LT [] tok = "GT" -> OP_GT
      [] tok = "LE" -> OP_LE [] tok = "GE" -> OP_GE
      [] tok = "AND" -> OP_AND [] tok = "OR" -> OP_OR

\* statements after which case BLOCK emits no OP_POP
NoPopAfter == {"IF", "WHILE", "FOR", "REPEAT", "FUNCTION", "RETURN", "ASSIGN"}

RECURSIVE compile_node(_, _)
RECURSIVE compile_children(_, _, _)
RECURSIVE compile_block(_, _, _)
RECURSIVE compile_function(_)

\* for (i = from; i < children.size(); i++) compile_node(children[i])
compile_children(cs, kids, i) ==
    IF i > Len(kids) THEN cs
    ELSE LET c1 == compile_node(cs, kids[i])
         IN  IF c1.error THEN c1 ELSE compile_children(c1, kids, i + 1)

\* case PROGRAM / BLOCK: each child, then OP_POP unless the child is exempt
compile_block(cs, kids, i) ==
    IF i > Len(kids) THEN cs
    ELSE LET start == Len(cs.code)
             c1 == compile_node(cs, kids[i])
             c2 == IF kids[i].type \notin NoPopAfter THEN emit(c1, OP_POP) ELSE c1
             c3 == [c2 EXCEPT !.marks = @ \cup
                       {[type |-> kids[i].type, start |-> start,
                         next |-> Len(c2.code), locals |-> Len(cs.locals)]}]
         IN  IF c3.error THEN c3 ELSE compile_block(c3, kids, i + 1)

compile_function(node) ==
    LET c0 == begin_scope(NewCompiler)
        c1 == [c0 EXCEPT !.locals = Append(@, [name |-> "", depth |-> c0.scope_depth])]
        c2 == [c1 EXCEPT !.locals = @ \o
                 [k \in 1..Len(node.params) |->
                     [name |-> node.params[k], depth |-> c1.scope_depth]]]
        c3 == IF Len(node.children) > 0 THEN compile_node(c2, node.children[1]) ELSE c2
        c4 == emit(emit(c3, OP_NONE), OP_RETURN)
    IN  end_scope(c4)

compile_node(cs, node) ==
    CASE node.type \in {"PROGRAM", "BLOCK"} ->
            compile_block(cs, node.children, 1)
      [] node.type = "LITERAL" ->
            IF node.token = "NUMBER"
            THEN IF node.num >= 0 /\ node.num <= 255
                 THEN emit_byte(emit(cs, OP_CONST_INT), node.num)
                 ELSE emit_constant(cs, IntegerValue(node.num))
            ELSE IF node.token = "STRING"
            THEN emit_constant(cs, StringValue(node.value))
            ELSE IF node.token = "TRUE" THEN emit(cs, OP_TRUE)
            ELSE IF node.token = "FALSE" THEN emit(cs, OP_FALSE)
            ELSE IF node.token = "NONE" THEN emit(cs, OP_NONE)
            ELSE IF node.token = "LBRACKET"
            THEN LET c1 == compile_children(cs, node.children, 1)
                 IN  IF c1.error THEN c1
                     ELSE emit_byte(emit(c1, OP_BUILD_LIST), Len(node.children))
            ELSE cs
      [] node.type = "VARIABLE" -> EmitGet(cs, node.value)
      [] node.type = "ASSIGN" ->
            IF node.children[1].type = "INDEX"
            THEN LET c1 == compile_children(cs, node.children[1].children, 1)
                     c2 == IF c1.error THEN c1 ELSE compile_node(c1, node.children[2])
                 IN  IF c2.error THEN c2 ELSE emit(emit(c2, OP_SET_INDEX), OP_POP)
            ELSE LET c1 == compile_node(cs, node.children[2])
                 IN  emit(EmitSet(c1, node.value), OP_POP)
      [] node.type = "COMPOUND_ASSIGN" ->
            LET name == node.children[1].value
                c1 == EmitGet(cs, name)
                c2 == compile_node(c1, node.children[2])
                c3 == CASE node.value = "+=" -> emit(c2, OP_ADD)
                        [] node.value = "-=" -> emit(c2, OP_SUB)
                        [] node.value = "*=" -> emit(c2, OP_MUL)
                        [] node.value = "/=" -> emit(c2, OP_DIV)
                        [] OTHER -> c2
            IN  emit(EmitSet(c3, name), OP_POP)
      [] node.type = "BINARY" ->
            LET l == node.children[1]
                r == node.children[2]
                f == IF IsIntLiteral(l) /\ IsIntLiteral(r)
                     THEN Fold(node.token, l.num, r.num)
                     ELSE [folded |-> FALSE, result |-> 0]
            IN  IF f.folded /\ f.result >= 0 /\ f.result <= 255
                THEN emit_byte(emit(cs, OP_CONST_INT), f.result)
                ELSE emit(compile_node(compile_node(cs, l), r), BinaryOp(node.token))
      [] node.type = "UNARY" ->
            LET c1 == compile_node(cs, node.children[1])
            IN  IF node.token = "MINUS" THEN emit(c1, OP_NEG)
                ELSE IF node.token = "NOT" THEN emit(c1, OP_NOT) ELSE c1
      [] node.type = "IF" ->
            LET c1 == emit_jump(compile_node(cs, node.children[1]), OP_JUMP_IF_FALSE)
                then_jump == Len(c1.code) - 2
                c2 == compile_node(emit(c1, OP_POP), node.children[2])
                c3 == emit_jump(c2, OP_JUMP)
                other_jump == Len(c3.code) - 2
                c4 == emit(patch_jump(c3, then_jump), OP_POP)
            IN  IF Len(node.children) > 2
                THEN patch_jump(compile_node(c4, node.children[3]), other_jump)
                ELSE patch_jump(c4, other_jump)
      [] node.type = "WHILE" ->
            LET loop_start == Len(cs.code)
                c0 == [cs EXCEPT !.loops = Append(@, [start |-> loop_start, breaks |-> <<>>])]
                c1 == emit_jump(compile_node(c0, node.children[1]), OP_JUMP_IF_FALSE)
                exit == Len(c1.code) - 2
                c2 == compile_node(emit(c1, OP_POP), node.children[2])
                c3 == emit(patch_jump(emit_loop(c2, loop_start), exit), OP_POP)
                c4 == PatchAll(c3, c3.loops[Len(c3.loops)].breaks, 1)
            IN  [c4 EXCEPT !.loops = SubSeq(@, 1, Len(@) - 1)]
      [] node.type = "FOR" ->
            LET c0 == emit(compile_node(begin_scope(cs), node.children[1]), OP_ITER_INIT)
                c1 == emit([c0 EXCEPT !.locals =
                               Append(@, [name |-> node.value, depth |-> c0.scope_depth])],
                           OP_NONE)
                loop_start == Len(c1.code)
                c2 == emit_jump([c1 EXCEPT !.loops =
                                    Append(@, [start |-> loop_start, breaks |-> <<>>])],
                                OP_ITER_NEXT)
                exit == Len(c2.code) - 2
                c3 == emit(emit_byte(emit(c2, OP_SET_LOCAL), Len(c2.locals) - 1), OP_POP)
            IN  IF c3.error THEN c3
                ELSE LET c4 == compile_node(c3, node.children[2])
                     IN  IF c4.error THEN c4
                         ELSE LET c5 == patch_jump(emit_loop(c4, loop_start), exit)
                                  c6 == PatchAll(c5, c5.loops[Len(c5.loops)].breaks, 1)
                              IN  end_scope([c6 EXCEPT
                                               !.loops = SubSeq(@, 1, Len(@) - 1)])
      [] node.type = "REPEAT" ->
            LET c0 == compile_node(begin_scope(cs), node.children[1])
                c1 == [c0 EXCEPT !.locals =
                          Append(@, [name |-> "__count__", depth |-> c0.scope_depth])]
                c2 == [emit_byte(emit(c1, OP_CONST_INT), 0) EXCEPT !.locals =
                          Append(@, [name |-> "__i__", depth |-> c0.scope_depth])]
                loop_start == Len(c2.code)
                c3 == [c2 EXCEPT !.loops =
                          Append(@, [start |-> loop_start, breaks |-> <<>>])]
                c4 == emit(emit_byte(emit(emit_byte(emit(c3, OP_GET_LOCAL),
                                                    Len(c3.locals) - 1),
                                          OP_GET_LOCAL),
                                     Len(c3.locals) - 2),
                           OP_LT)
                c5 == emit_jump(c4, OP_JUMP_IF_FALSE)
                exit == Len(c5.code) - 2
            IN  IF c0.error THEN c0
                ELSE LET c6 == compile_node(emit(c5, OP_POP), node.children[2])
                     IN  IF c6.error THEN c6
                         ELSE LET c7 == emit_byte(emit(c6, OP_GET_LOCAL), Len(c6.locals) - 1)
                                  c8 == emit(emit_byte(emit(c7, OP_CONST_INT), 1), OP_ADD)
                                  c9 == emit(emit_byte(emit(c8, OP_SET_LOCAL),
                                                       Len(c8.locals) - 1),
                                             OP_POP)
                                  c10 == emit(patch_jump(emit_loop(c9, loop_start), exit),
                                              OP_POP)
                                  c11 == PatchAll(c10, c10.loops[Len(c10.loops)].breaks, 1)
                              IN  end_scope([c11 EXCEPT
                                                !.loops = SubSeq(@, 1, Len(@) - 1)])
      [] node.type = "BREAK" ->
            IF Len(cs.loops) = 0 THEN [cs EXCEPT !.error = TRUE]
            ELSE LET c1 == emit_jump(cs, OP_JUMP)
                 IN  [c1 EXCEPT !.loops[Len(c1.loops)].breaks =
                                   Append(@, Len(c1.code) - 2)]
      [] node.type = "CONTINUE" ->
            IF Len(cs.loops) = 0 THEN [cs EXCEPT !.error = TRUE]
            ELSE emit_loop(cs, cs.loops[Len(cs.loops)].start)
      [] node.type = "THROW_STMT" ->
            emit(compile_children(cs, node.children, 1), OP_THROW)
      [] node.type = "TRY" ->
            LET c0 == emit(cs, OP_TRY)
                catch_jump == Len(c0.code)
                c1 == compile_node(emit_short(c0, 0), node.children[1])
                c2 == emit_jump(c1, OP_JUMP)
                end_jump == Len(c2.code) - 2
                catch_offset == Len(c2.code) - catch_jump - 2
                c3 == [c2 EXCEPT !.code =
                          [@ EXCEPT ![catch_jump + 1] = catch_offset % 256,
                                    ![catch_jump + 2] = (catch_offset \div 256) % 256]]
                c4 == compile_node(emit(c3, OP_CATCH), node.children[2])
            IN  patch_jump(c4, end_jump)
      [] node.type = "FUNCTION" ->
            LET fc == compile_function(node)
                fv == FunctionValue(Chunk(fc), node.value, Len(node.params))
                c1 == [emit_constant(cs, fv) EXCEPT !.error = cs.error \/ fc.error]
                slot == resolve_local(c1, node.value)
            IN  IF slot # -1 THEN emit_byte(emit(c1, OP_SET_LOCAL), slot)
                ELSE emit_short(emit(add_constant(c1, StringValue(node.value)),
                                     OP_DEFINE_GLOBAL),
                                Len(c1.constants))
      [] node.type = "CALL" ->
            LET name == node.children[1].value
            IN  IF name = "say" /\ Len(node.children) = 2
                THEN emit(compile_node(cs, node.children[2]), OP_BUILTIN_SAY)
                ELSE IF name = "len" /\ Len(node.children) = 2
                THEN emit(compile_node(cs, node.children[2]), OP_BUILTIN_LEN)
                ELSE IF name = "range"
                THEN emit_byte(emit(compile_children(cs, node.children, 2),
                                    OP_BUILTIN_RANGE),
                               Len(node.children) - 1)
                ELSE IF name = "append" /\ Len(node.children) = 3
                THEN emit(compile_children(cs, node.children, 2), OP_BUILTIN_APPEND)
                ELSE IF name = "str" /\ Len(node.children) = 2
                THEN emit(compile_node(cs, node.children[2]), OP_BUILTIN_STR)
                ELSE IF name = "read_file" /\ Len(node.children) = 2
                THEN emit(compile_node(cs, node.children[2]), OP_BUILTIN_READ_FILE)
                ELSE emit_byte(emit(compile_children(cs, node.children, 1), OP_CALL),
                               Len(node.children) - 1)
      [] node.type = "RETURN" ->
            IF Len(node.children) > 0
            THEN emit(compile_node(cs, node.children[1]), OP_RETURN)
            ELSE emit(emit(cs, OP_NONE), OP_RETURN)
      [] node.type = "SAY" ->
            emit(compile_node(cs, node.children[1]), OP_BUILTIN_SAY)
      [] node.type = "INDEX" ->
            LET c1 == compile_children(cs, node.children, 1)
            IN  IF c1.error THEN c1 ELSE emit(c1, OP_GET_INDEX)
      [] OTHER -> cs

\* Compiler::compile
compile(node) == emit(compile_node(NewCompiler, node), OP_RETURN)

(***************************************************************************)
(* NaN-boxed values.  A value is the 64-bit pattern; the model keeps the   *)
(* tag and the payload apart.  VAL_TRUE = QNAN_BITS | 0x0003... carries    *)
(* the TAG_INT bit, so is_int(VAL_TRUE) holds and its 48-bit payload is 0. *)
(* A double is a reduced fraction n/d.  VAL_NONE, VAL_FALSE and object     *)
(* pointers read as doubles are quiet NaNs; arithmetic hands the NaN       *)
(* operand back with its payload, i.e. the same tagged value.  Integers of *)
(* the model stay inside the 48-bit payload, where "& INT_MASK" followed   *)
(* by the sign extension of as_int is the identity.                        *)
(***************************************************************************)
VAL_NONE == [tag |-> "none"]
VAL_TRUE == [tag |-> "true"]
VAL_FALSE == [tag |-> "false"]
val_int(i) == [tag |-> "int", i |-> i]

Abs(x) == IF x < 0 THEN -x ELSE x
RECURSIVE Gcd(_, _)
Gcd(a, b) == IF b = 0 THEN a ELSE Gcd(b, a % b)
\* the double n/d, reduced, d > 0
val_number(n, d) ==
    LET g == Gcd(Abs(n), Abs(d))
        s == IF d < 0 THEN -1 ELSE 1
    IN  [tag |-> "num", n |-> s * (n \div g), d |-> s * (d \div g)]
val_obj(o) == [tag |-> "obj", obj |-> o]

is_number(v) == v.tag = "num"
is_int(v) == v.tag \in {"int", "true"}
is_none(v) == v = VAL_NONE
is_obj(v) == v.tag = "obj"
as_int(v) == IF v.tag = "int" THEN v.i ELSE 0
obj_type(v) == v.obj.type

\* is_int(v) ? (double)as_int(v) : as_number(v)
ToDouble(v) == IF is_int(v) THEN val_number(as_int(v), 1) ELSE v
IsNaN(x) == x.tag # "num"
DAdd(a, b) == IF IsNaN(a) THEN a ELSE IF IsNaN(b) THEN b
              ELSE val_number(a.n * b.d + b.n * a.d, a.d * b.d)
DSub(a, b) == IF IsNaN(a) THEN a ELSE IF IsNaN(b) THEN b
              ELSE val_number(a.n * b.d - b.n * a.d, a.d * b.d)
DMul(a, b) == IF IsNaN(a) THEN a ELSE IF IsNaN(b) THEN b
              ELSE val_number(a.n * b.n, a.d * b.d)
\* a / b for b # 0.0
DDiv(a, b) == IF IsNaN(a) THEN a ELSE IF IsNaN(b) THEN b
              ELSE val_number(a.n * b.d, a.d * b.n)
DLess(a, b) == ~IsNaN(a) /\ ~IsNaN(b) /\ a.n * b.d < b.n * a.d
DLessEq(a, b) == ~IsNaN(a) /\ ~IsNaN(b) /\ a.n * b.d <= b.n * a.d
DIsZero(a) == ~IsNaN(a) /\ a.n = 0

is_truthy(v) ==
    IF v = VAL_FALSE \/ v = VAL_NONE THEN FALSE
    ELSE IF v = VAL_TRUE THEN TRUE
    ELSE IF is_int(v) THEN as_int(v) # 0
    ELSE IF is_number(v) THEN v.n # 0
    ELSE TRUE

Bool(b) == IF b THEN VAL_TRUE ELSE VAL_FALSE
fast_add(a, b) ==
    IF is_int(a) /\ is_int(b) THEN val_int(as_int(a) + as_int(b))
    ELSE DAdd(ToDouble(a), ToDouble(b))
fast_sub(a, b) ==
    IF is_int(a) /\ is_int(b) THEN val_int(as_int(a) - as_int(b))
    ELSE DSub(ToDouble(a), ToDouble(b))
fast_mul(a, b) ==
    IF is_int(a) /\ is_int(b) THEN val_int(as_int(a) * as_int(b))
    ELSE DMul(ToDouble(a), ToDouble(b))
fast_lt(a, b) ==
    IF is_int(a) /\ is_int(b) THEN Bool(as_int(a) < as_int(b))
    ELSE Bool(DLess(ToDouble(a), ToDouble(b)))
fast_le(a, b) ==
    IF is_int(a) /\ is_int(b) THEN Bool(as_int(a) <= as_int(b))
    ELSE Bool(DLessEq(ToDouble(a), ToDouble(b)))
\* a == b on the bit patterns
fast_eq(a, b) == Bool(a = b)

(***************************************************************************)
(* std::to_string: a long prints in decimal, a double prints as "%f"       *)
(* (six decimals, round half to even on the exact value).                  *)
(***************************************************************************)
Digit(k) == SubSeq("0123456789", k + 1, k + 1)
RECURSIVE NatToString(_)
NatToString(n) ==
    IF n < 10 THEN Digit(n) ELSE NatToString(n \div 10) \o Digit(n % 10)
IntToString(i) == IF i < 0 THEN "-" \o NatToString(-i) ELSE NatToString(i)
RECURSIVE Pad6(_, _)
Pad6(s, k) == IF k <= 0 THEN s ELSE Pad6("0" \o s, k - 1)
DoubleToString(x) ==
    LET a == Abs(x.n)
        whole == a \div x.d
        r == (a % x.d) * 1000000
        q == r \div x.d
        twice == 2 * (r % x.d)
        up == twice > x.d \/ (twice = x.d /\ q % 2 = 1)
        micros == whole * 1000000 + q + (IF up THEN 1 ELSE 0)
        frac == NatToString(micros % 1000000)
    IN  (IF x.n < 0 THEN "-" ELSE "") \o NatToString(micros \div 1000000)
        \o "." \o Pad6(frac, 6 - Len(frac))

val_to_string(v) ==
    IF v = VAL_NONE THEN "none"
    ELSE IF v = VAL_TRUE THEN "yes"
    ELSE IF v = VAL_FALSE THEN "no"
    ELSE IF is_int(v) THEN IntToString(as_int(v))
    ELSE IF is_number(v) THEN DoubleToString(v)
    ELSE IF obj_type(v) = "STRING" THEN v.obj.chars
    ELSE IF obj_type(v) = "FUNCTION" THEN "<function>"
    ELSE IF obj_type(v) = "RANGE" THEN "<range>"
    ELSE "<object>"

(***************************************************************************)
(* class Interpreter, the tree walker.  Environments are shared through    *)
(* shared_ptr, so they live in a heap `envs` and are named by their index  *)
(* (0 is the null parent; 1 is `global`).  A state I of the walk is        *)
(* [envs, out, ctl, value, args]: `out` is std::cout line by line, `ctl`   *)
(* is "ok" or the C++ exception in flight ("error" for std::runtime_error, *)
(* "return" for ReturnValue, "break", "continue"), `value` is the Value    *)
(* evaluate returned or the ReturnValue carries.  ctl = "unmodelled" marks *)
(* a node kind this development does not walk.                             *)
(***************************************************************************)
FloatValue(x) == [type |-> "FLOAT", floating |-> x]
BooleanValue(b) == [type |-> "BOOLEAN", boolean |-> b]
NoneValue == [type |-> "NONE"]
ListValue(l) == [type |-> "LIST", list |-> l]
BuiltinValue(name) ==
    [type |-> "FUNCTION", is_builtin |-> TRUE, builtin_name |-> name]
Closure(ps, body, env) ==
    [type |-> "FUNCTION", is_builtin |-> FALSE, builtin_name |-> "",
     params |-> ps, body |-> body, env |-> env]

RECURSIVE Value_to_string(_)
RECURSIVE ListToString(_, _)
ListToString(l, i) ==
    IF i > Len(l) THEN ""
    ELSE Value_to_string(l[i]) \o (IF i < Len(l) THEN ", " ELSE "")
         \o ListToString(l, i + 1)
Value_to_string(v) ==
    CASE v.type = "INTEGER" -> IntToString(v.integer)
      [] v.type = "FLOAT" -> DoubleToString(v.floating)
      [] v.type = "BOOLEAN" -> IF v.boolean THEN "yes" ELSE "no"
      [] v.type = "NONE" -> "none"
      [] v.type = "LIST" -> "[" \o ListToString(v.list, 1) \o "]"
      [] v.type = "FUNCTION" ->
            IF v.is_builtin THEN "<function " \o v.builtin_name \o ">"
            ELSE "<function>"
      [] OTHER -> "<unknown>"

Value_is_truthy(v) ==
    CASE v.type = "BOOLEAN" -> v.boolean
      [] v.type = "INTEGER" -> v.integer # 0
      [] v.type = "FLOAT" -> v.floating.n # 0
      [] v.type = "LIST" -> Len(v.list) > 0
      [] v.type = "FUNCTION" -> TRUE
      [] OTHER -> FALSE

NewEnvironment(parent) == [variables |-> <<>>, parent |-> parent]
BindVar(vs, name, v) ==
    [n \in DOMAIN vs \cup {name} |-> IF n = name THEN v ELSE vs[n]]
Environment_define(envs, e, name, v) ==
    [envs EXCEPT ![e].variables = BindVar(@, name, v)]
RECURSIVE Environment_get(_, _, _)
Environment_get(envs, e, name) ==
    IF name \in DOMAIN envs[e].variables
    THEN [found |-> TRUE, value |-> envs[e].variables[name]]
    ELSE IF envs[e].parent # 0 THEN Environment_get(envs, envs[e].parent, name)
    ELSE [found |-> FALSE, value |-> NoneValue]
RECURSIVE Environment_assign(_, _, _, _)
Environment_assign(envs, e, name, v) ==
    IF name \in DOMAIN envs[e].variables THEN Environment_define(envs, e, name, v)
    ELSE IF envs[e].parent # 0 /\ Environment_get(envs, envs[e].parent, name).found
    THEN Environment_assign(envs, envs[e].parent, name, v)
    ELSE Environment_define(envs, e, name, v)

\* Interpreter(): `global` with the builtins this development walks
NewInterpreter ==
    [envs |-> <<[variables |-> [n \in {"range"} |-> BuiltinValue(n)], parent |-> 0]>>,
     out |-> <<>>, ctl |-> "ok", value |-> NoneValue, args |-> <<>>]

Returning(I, v) == [I EXCEPT !.value = v]
Throwing(I, what) == [I EXCEPT !.ctl = what, !.value = NoneValue]

\* Interpreter::builtin_range: the list start, start + step, ...
RECURSIVE RangeList(_, _, _)
RangeList(start, stop, step) ==
    IF (step > 0 /\ start < stop) \/ (step < 0 /\ start > stop)
    THEN <<IntegerValue(start)>> \o RangeList(start + step, stop, step)
    ELSE <<>>
builtin_range(I, args) ==
    IF Len(args) \notin {1, 2, 3} \/ \E k \in 1..Len(args) : args[k].type # "INTEGER"
    THEN Throwing(I, "error")
    ELSE IF Len(args) = 1 THEN Returning(I, ListValue(RangeList(0, args[1].integer, 1)))
    ELSE IF Len(args) = 2
    THEN Returning(I, ListValue(RangeList(args[1].integer, args[2].integer, 1)))
    ELSE IF args[3].integer = 0 THEN Throwing(I, "error")
    ELSE Returning(I, ListValue(RangeList(args[1].integer, args[2].integer,
                                          args[3].integer)))

AsDouble(v) == IF v.type = "FLOAT" THEN v.floating ELSE val_number(v.integer, 1)
IsNumeric(v) == v.type \in {"FLOAT", "INTEGER"}
Comparison(op, less, equal) ==
    CASE op = "==" -> equal [] op = "!=" -> ~equal
      [] op = "<" -> less [] op = ">" -> ~less /\ ~equal
      [] op = "<=" -> less \/ equal [] op = ">=" -> ~less

\* case BINARY once both operands are evaluated
evaluate_binary(I, op, left, right) ==
    LET compares == op \in {"==", "!=", "<", ">", "<=", ">="}
        fallthrough ==
            IF op = "==" THEN
                Returning(I, BooleanValue(left.type = "NONE" /\ right.type = "NONE"))
            ELSE IF op = "!=" THEN
                Returning(I, BooleanValue(~(left.type = "NONE" /\ right.type = "NONE")))
            ELSE Throwing(I, "error")
    IN  IF left.type = "INTEGER" /\ right.type = "INTEGER"
        THEN LET l == left.integer
                 r == right.integer
             IN  CASE op = "+" -> Returning(I, IntegerValue(l + r))
                   [] op = "-" -> Returning(I, IntegerValue(l - r))
                   [] op = "*" -> Returning(I, IntegerValue(l * r))
                   [] op = "/" -> IF r = 0 THEN Throwing(I, "error")
                                  ELSE Returning(I, FloatValue(val_number(l, r)))
                   [] op = "%" -> IF r = 0 THEN Throwing(I, "error")
                                  ELSE Returning(I, IntegerValue(TruncMod(l, r)))
                   [] compares -> Returning(I, BooleanValue(Comparison(op, l < r, l = r)))
                   [] OTHER -> Throwing(I, "unmodelled")
        ELSE IF IsNumeric(left) /\ IsNumeric(right)
        THEN LET l == AsDouble(left)
                 r == AsDouble(right)
             IN  CASE op = "+" -> Returning(I, FloatValue(DAdd(l, r)))
                   [] op = "-" -> Returning(I, FloatValue(DSub(l, r)))
                   [] op = "*" -> Returning(I, FloatValue(DMul(l, r)))
                   [] op = "/" -> IF r.n = 0 THEN Throwing(I, "error")
                                  ELSE Returning(I, FloatValue(DDiv(l, r)))
                   [] compares ->
                        Returning(I, BooleanValue(Comparison(op, DLess(l, r), l = r)))
                   [] OTHER -> fallthrough
        ELSE IF left.type = "BOOLEAN" /\ right.type = "BOOLEAN" /\ op \in {"==", "!="}
        THEN Returning(I, BooleanValue(Comparison(op, FALSE, left.boolean = right.boolean)))
        ELSE fallthrough

RECURSIVE evaluate(_, _, _)
RECURSIVE evaluate_each(_, _, _, _)
RECURSIVE evaluate_args(_, _, _, _)
RECURSIVE evaluate_while(_, _, _)
RECURSIVE evaluate_for(_, _, _, _, _)

\* for (child : node->children) last_val = evaluate(child, env)
evaluate_each(I, kids, i, env) ==
    IF i > Len(kids) THEN I
    ELSE LET I1 == evaluate(I, kids[i], env)
         IN  IF I1.ctl # "ok" THEN I1 ELSE evaluate_each(I1, kids, i + 1, env)

\* args.push_back(evaluate(children[i], env)) for i >= 1
evaluate_args(I, kids, i, env) ==
    IF i > Len(kids) THEN I
    ELSE LET I1 == evaluate(I, kids[i], env)
         IN  IF I1.ctl # "ok" THEN I1
             ELSE evaluate_args([I1 EXCEPT !.args = Append(I.args, I1.value)],
                                kids, i + 1, env)

\* case WHILE; I.value is last_val
evaluate_while(I, node, env) ==
    LET c == evaluate(I, node.children[1], env)
    IN  IF c.ctl # "ok" THEN c
        ELSE IF ~Value_is_truthy(c.value) THEN Returning(c, I.value)
        ELSE LET b == evaluate(c, node.children[2], env)
             IN  IF b.ctl = "break" THEN [b EXCEPT !.ctl = "ok", !.value = I.value]
                 ELSE IF b.ctl = "continue"
                 THEN evaluate_while([b EXCEPT !.ctl = "ok", !.value = I.value], node, env)
                 ELSE IF b.ctl # "ok" THEN b
                 ELSE evaluate_while(b, node, env)

\* case FOR over a LIST; I.value is last_val
evaluate_for(I, node, loop_env, items, i) ==
    IF i > Len(items) THEN I
    ELSE LET I0 == [I EXCEPT !.envs =
                       Environment_define(@, loop_env, node.value, items[i])]
             b == evaluate(I0, node.children[2], loop_env)
         IN  IF b.ctl = "break" THEN [b EXCEPT !.ctl = "ok", !.value = I.value]
             ELSE IF b.ctl = "continue"
             THEN evaluate_for([b EXCEPT !.ctl = "ok", !.value = I.value],
                               node, loop_env, items, i + 1)
             ELSE IF b.ctl # "ok" THEN b
             ELSE evaluate_for(b, node, loop_env, items, i + 1)

\* Interpreter::evaluate(node, env)
evaluate(I, node, env) ==
    CASE node.type = "PROGRAM" ->
            evaluate_each(Returning(I, NoneValue), node.children, 1, env)
      [] node.type = "BLOCK" ->
            LET I0 == [I EXCEPT !.envs = Append(@, NewEnvironment(env)),
                                !.value = NoneValue]
            IN  evaluate_each(I0, node.children, 1, Len(I0.envs))
      [] node.type = "ASSIGN" ->
            LET I1 == evaluate(I, node.children[2], env)
            IN  IF I1.ctl # "ok" THEN I1
                ELSE IF node.children[1].type # "VARIABLE" THEN Throwing(I1, "unmodelled")
                ELSE [I1 EXCEPT !.envs = Environment_assign(@, env,
                                             node.children[1].value, I1.value)]
      [] node.type = "BINARY" ->
            LET l == evaluate(I, node.children[1], env)
                r == evaluate(l, node.children[2], env)
            IN  IF l.ctl # "ok" THEN l
                ELSE IF r.ctl # "ok" THEN r
                ELSE evaluate_binary(r, node.value, l.value, r.value)
      [] node.type = "UNARY" ->
            LET r == evaluate(I, node.children[1], env)
            IN  IF r.ctl # "ok" THEN r
                ELSE IF node.value # "-" THEN Throwing(r, "unmodelled")
                ELSE IF r.value.type = "INTEGER"
                THEN Returning(r, IntegerValue(-r.value.integer))
                ELSE IF r.value.type = "FLOAT"
                THEN Returning(r, FloatValue(DSub(val_number(0, 1), r.value.floating)))
                ELSE Throwing(r, "error")
      [] node.type = "LITERAL" ->
            IF node.token = "NUMBER" THEN Returning(I, IntegerValue(node.num))
            ELSE IF node.token = "TRUE" THEN Returning(I, BooleanValue(TRUE))
            ELSE IF node.token = "FALSE" THEN Returning(I, BooleanValue(FALSE))
            ELSE IF node.token = "NONE" THEN Returning(I, NoneValue)
            ELSE Throwing(I, "unmodelled")
      [] node.type = "VARIABLE" ->
            LET got == Environment_get(I.envs, env, node.value)
            IN  IF got.found THEN Returning(I, got.value) ELSE Throwing(I, "error")
      [] node.type = "SAY" ->
            LET I1 == evaluate(I, node.children[1], env)
            IN  IF I1.ctl # "ok" THEN I1
                ELSE [I1 EXCEPT !.out = Append(@, Value_to_string(I1.value)),
                                !.value = NoneValue]
      [] node.type = "FUNCTION" ->
            [I EXCEPT !.envs = Environment_define(@, env, node.value,
                                   Closure(node.params, node.children[1], env)),
                      !.value = NoneValue]
      [] node.type = "CALL" ->
            LET c == evaluate(I, node.children[1], env)
                a == evaluate_args([c EXCEPT !.args = <<>>], node.children, 2, env)
                args == a.args
                I2 == [a EXCEPT !.args = I.args]
                f == c.value
            IN  IF c.ctl # "ok" THEN c
                ELSE IF a.ctl # "ok" THEN I2
                ELSE IF f.type # "FUNCTION" THEN Throwing(I2, "error")
                ELSE IF f.is_builtin
                THEN IF f.builtin_name = "range" THEN builtin_range(I2, args)
                     ELSE Throwing(I2, "unmodelled")
                ELSE IF Len(args) # Len(f.params) THEN Throwing(I2, "error")
                ELSE LET callEnv == Len(I2.envs) + 1
                         I3 == [I2 EXCEPT !.envs =
                                   Append(@, [variables |->
                                                 [n \in {f.params[k] : k \in 1..Len(args)} |->
                                                     LET last == CHOOSE k \in 1..Len(args) :
                                                             /\ f.params[k] = n
                                                             /\ \A j \in (k + 1)..Len(args) :
                                                                    f.params[j] # n
                                                     IN  args[last]],
                                              parent |-> f.env])]
                         I4 == evaluate(I3, f.body, callEnv)
                     IN  IF I4.ctl = "return" THEN [I4 EXCEPT !.ctl = "ok"] ELSE I4
      [] node.type = "IF" ->
            LET c == evaluate(I, node.children[1], env)
            IN  IF c.ctl # "ok" THEN c
                ELSE IF Value_is_truthy(c.value) THEN evaluate(c, node.children[2], env)
                ELSE IF Len(node.children) > 2 THEN evaluate(c, node.children[3], env)
                ELSE Returning(c, NoneValue)
      [] node.type = "BREAK" -> Throwing(I, "break")
      [] node.type = "CONTINUE" -> Throwing(I, "continue")
      [] node.type = "WHILE" -> evaluate_while(Returning(I, NoneValue), node, env)
      [] node.type = "FOR" ->
            LET it == evaluate(I, node.children[1], env)
                I1 == [it EXCEPT !.envs = Append(@, NewEnvironment(env)),
                                 !.value = NoneValue]
            IN  IF it.ctl # "ok" THEN it
                ELSE IF it.value.type # "LIST" THEN Throwing(it, "error")
                ELSE evaluate_for(I1, node, Len(I1.envs), it.value.list, 1)
      [] node.type = "TRY" ->
            LET t == evaluate(I, node.children[1], env)
            IN  IF t.ctl = "error"
                THEN evaluate([t EXCEPT !.ctl = "ok"], node.children[2], env)
                ELSE t
      [] node.type = "RETURN" ->
            IF Len(node.children) = 0 THEN [I EXCEPT !.ctl = "return", !.value = NoneValue]
            ELSE LET r == evaluate(I, node.children[1], env)
                 IN  IF r.ctl # "ok" THEN r ELSE [r EXCEPT !.ctl = "return"]
      \* default: throw std::runtime_error("Unknown AST node type: ...")
      [] node.type = "THROW_STMT" -> Throwing(I, "error")
      [] OTHER -> Throwing(I, "unmodelled")

\* Interpreter::interpret: evaluate(node, global), a runtime_error goes to std::cerr
interpret(node) == evaluate(NewInterpreter, node, 1)

(***************************************************************************)
(* class FastVM.  Pointers are indices: sp and slots into stack[], fp into *)
(* frames[]; ip is a chunk's code vector (base) and an offset into it.     *)
(* `program` is the syntax tree main() compiled; `junk` is what the bytes  *)
(* of the never-initialised stack[] and of memory next to it read as.      *)
(* `status` is where run() stands: "ready" (constructed), "running",       *)
(* "done" (execute returned from the top-level OP_RETURN), "error"         *)
(* (execute returned VAL_NONE after an uncaught error), "exit" (exit(1)),  *)
(* "crash" (a hardware trap) and "corrupt" (a load or store outside an     *)
(* array: from there on the behaviour is undefined).  `err` is the line on *)
(* stderr, or the kind of stray access.                                    *)
(* g_call, g_try, g_done, g_throw and g_handlers are history variables:    *)
(* they copy values of the variables above at a CALL, a TRY, the end of a  *)
(* try/catch statement and a raise, and never feed back into them.         *)
(***************************************************************************)
VARIABLES program, junk, chunk, ip, slots, stack, sp, frames, fp, frame_count,
          globals, iterators, iter_count, try_handlers, try_count,
          output, status, err, obj_count, lists, g_strings, jit_funcs,
          g_call, g_try, g_done, g_throw, g_handlers, g_compiled,
          nanbox, g_interned, patched

regs == <<chunk, slots>>
frame_vars == <<frames, fp, frame_count>>
iter_vars == <<iterators, iter_count>>
try_vars == <<try_handlers, try_count>>
ghost_vars == <<g_call, g_try, g_done, g_throw, g_handlers>>
env_vars == <<program, junk, nanbox, g_interned, patched>>
jit_vars == <<jit_funcs, g_compiled>>
heap_vars == <<obj_count, lists, g_strings, jit_vars>>
vars == <<program, junk, chunk, ip, slots, stack, sp, frames, fp, frame_count,
          globals, iterators, iter_count, try_handlers, try_count,
          output, status, err, obj_count, lists, g_strings, jit_funcs,
          g_call, g_try, g_done, g_throw, g_handlers, g_compiled, nanbox, g_interned, patched>>

NullChunk == [code |-> <<>>, constants |-> <<>>, marks |-> {}]
NullIp == [base |-> NullChunk, off |-> 0]
NoFrame == [chunk |-> NullChunk, ip |-> NullIp, slots |-> 0]
NoIter == [obj |-> VAL_NONE, idx |-> 0, cur |-> 0, stop |-> 0, step |-> 0]
NoHandler == [catch_ip |-> NullIp, saved_ip |-> NullIp, saved_sp |-> 0, saved_fp |-> 0]
NoCall == [valid |-> FALSE, frame_count |-> 0, fp |-> 0, ip |-> NullIp, sp |-> 0, argc |-> 0]
NoDone == [valid |-> FALSE, cause |-> "none", sp_before |-> 0, sp_after |-> 0,
           tc_before |-> 0, tc_after |-> 0]
NoThrow == [valid |-> FALSE, n |-> 0, h |-> NoHandler]
\* no application of the value encoding under way (see the section on its bits)
NoBox == [pc |-> "idle", i |-> <<0, 0, 0, 0>>, v |-> <<0, 0, 0, 0>>,
          out |-> <<0, 0, 0, 0>>, kinds |-> {}]
\* no jump under consideration (see the section on jumps)
NoPatch == [op |-> 0, offset |-> 0, size |-> 0, operand |-> <<>>, pc |-> "idle", ip |-> 0]
NoGhostHandler == [chunk |-> NullChunk, slots |-> 0, frame_count |-> 0]

\* the bytes of uninitialised memory: all-zero bits are the double 0.0
Junk == {val_number(0, 1), VAL_NONE}

InStack(k) == k >= 0 /\ k < STACK_MAX
\* a load through sp or slots
Read(k) == IF InStack(k) THEN stack[k] ELSE junk
PEEK(n) == Read(sp - 1 - n)

\* READ_BYTE / READ_SHORT relative to the opcode ip points at
InCode(p, k) == p.off + k >= 0 /\ p.off + k < Len(p.base.code)
Byte(p, k) == IF InCode(p, k) THEN p.base.code[p.off + k + 1] ELSE -1
\* READ_SHORT: ip[-2] | (ip[-1] << 8)
ReadShort(lo, hi) == lo + 256 * hi
Short(p, k) == ReadShort(Byte(p, k), Byte(p, k + 1))
At(p, k) == [p EXCEPT !.off = @ + k]
Op == Byte(ip, 0)
Running(op) == status = "running" /\ Op = op

\* chunk->constants[idx]; std::vector::operator[] outside the vector is undefined
HasConstant(c, idx) == idx >= 0 /\ idx < Len(c.constants)
ConstantAt(c, idx) == c.constants[idx + 1]
\* name_val.data.string: empty unless the Value is a STRING
StringOf(v) == IF v.type = "STRING" THEN v.string ELSE ""

\* globals[name] of std::unordered_map: a missing key is inserted as 0
Lookup(g, name) == IF name \in DOMAIN g THEN g[name] ELSE val_number(0, 1)
Bind(g, name, v) == [n \in DOMAIN g \cup {name} |-> IF n = name THEN v ELSE g[n]]

\* a store or load outside an array
Stray(kind) ==
    /\ status' = "corrupt"
    /\ err' = kind
    /\ UNCHANGED <<ip, stack, sp>>

\* *p = v through sp or slots, then sp and ip as the handler leaves them
Store(k, v, nsp, nip) ==
    IF InStack(k)
    THEN /\ stack' = [stack EXCEPT ![k] = v]
         /\ sp' = nsp
         /\ ip' = nip
         /\ UNCHANGED <<status, err>>
    ELSE Stray(IF k >= STACK_MAX THEN "store above stack[]" ELSE "store below stack[]")

\* class StringPool.  The pool is the set of the entries [key, id] of its map; id
\* names the ObjString of the entry, the id-th object allocated.  An interning is
\* [obj, pool, count]: the ObjString returned, the pool and the allocation count
\* after the call.
\* a lookup that finds nothing
pool_find_nothing(pool, key) == {}
pool_find(pool, key) == {e \in pool : e.key = key}
ObjString_create(str, n) == [type |-> "STRING", chars |-> str, id |-> n]
intern(pool, n, str) ==
    LET it == pool_find(pool, str)
    IN  IF it # {}
        THEN [obj |-> ObjString_create(str, (CHOOSE e \in it : TRUE).id),
              pool |-> pool, count |-> n]
        ELSE [obj |-> ObjString_create(str, n),
              pool |-> {e \in pool : e.key # str} \cup {[key |-> str, id |-> n]},
              count |-> n + 1]
IsString(v) == is_obj(v) /\ obj_type(v) = "STRING"

\* FastVM::from_value with make_func: [val, pool, count]
from_value(v, pool, n) ==
    CASE v.type = "INTEGER" -> [val |-> val_int(v.integer), pool |-> pool, count |-> n]
      [] v.type = "STRING" ->
            LET r == intern(pool, n, v.string)
            IN  [val |-> val_obj(r.obj), pool |-> r.pool, count |-> r.count]
      [] v.type = "FUNCTION" ->
            LET r == intern(pool, n + 1, v.name)
            IN  [val |-> val_obj([type |-> "FUNCTION", chunk |-> v.chunk,
                                  name |-> v.name, arity |-> v.arity, id |-> n]),
                 pool |-> r.pool, count |-> r.count]
      [] OTHER -> [val |-> VAL_NONE, pool |-> pool, count |-> n]

(***************************************************************************)
(* The programs run, as the syntax trees Parser::parse builds for them.    *)
(***************************************************************************)
\* say(1 + x)
P_Say == Program(<<Say(Bin("+", Num(1), Var("x")))>>)
\* x <- 7  y <- x * 3 - 2  say(y)  say(-x)  say(x % 4)  say(300)
\* if x > 3 { say(1) } else { say(0) }   if x == 7 { say(2) }
\* if x != 7 { say(3) } else { say(4) }  if x <= 7 { say(5) }  if x >= 8 { say(6) }
P_Arith ==
    Program(<<Assign("x", Num(7)),
              Assign("y", Bin("-", Bin("*", Var("x"), Num(3)), Num(2))),
              Say(Var("y")), Say(Neg(Var("x"))), Say(Bin("%", Var("x"), Num(4))),
              Say(Num(300)),
              IfElse(Bin(">", Var("x"), Num(3)), Block(<<Say(Num(1))>>),
                     Block(<<Say(Num(0))>>)),
              If(Bin("==", Var("x"), Num(7)), Block(<<Say(Num(2))>>)),
              IfElse(Bin("!=", Var("x"), Num(7)), Block(<<Say(Num(3))>>),
                     Block(<<Say(Num(4))>>)),
              If(Bin("<=", Var("x"), Num(7)), Block(<<Say(Num(5))>>)),
              If(Bin(">=", Var("x"), Num(8)), Block(<<Say(Num(6))>>))>>)
\* say(6 / 3)
P_Div == Program(<<Say(Bin("/", Num(6), Num(3)))>>)
\* s <- 0  for i in range(4) { s <- s + i }  say(s)
\* act f(a) { return a * 2 }  say(f(21))
\* while s < 9 { s <- s + 1 }  say(s / 2)
P_Loop == Program(<<Assign("s", Num(0)),
                    For("i", Call("range", <<Num(4)>>),
                        Block(<<Assign("s", Bin("+", Var("s"), Var("i")))>>)),
                    Say(Var("s")),
                    Func("f", <<"a">>, Block(<<Return(Bin("*", Var("a"), Num(2)))>>)),
                    Say(Call("f", <<Num(21)>>)),
                    While(Bin("<", Var("s"), Num(9)),
                          Block(<<Assign("s", Bin("+", Var("s"), Num(1)))>>)),
                    Say(Bin("/", Var("s"), Num(2)))>>)
\* act f(a, b) { n <- 0
\*               while n < 2 { try { say(1 / 0) } catch { say(7) }  n <- n + 1 }
\*               return 0 }
\* f(1, 2)
P_TryDiv ==
    Program(<<Func("f", <<"a", "b">>,
                   Block(<<Assign("n", Num(0)),
                           While(Bin("<", Var("n"), Num(2)),
                                 Block(<<Try(Block(<<Say(Bin("/", Num(1), Num(0)))>>),
                                             Block(<<Say(Num(7))>>)),
                                         Assign("n", Bin("+", Var("n"), Num(1)))>>)),
                           Return(Num(0))>>)),
              Call("f", <<Num(1), Num(2)>>)>>)
\* act f(a, b) { try { try { throw } catch { say(1) }  throw } catch { say(2) }
\*               return 0 }
\* f(1, 2)
P_Nested ==
    Program(<<Func("f", <<"a", "b">>,
                   Block(<<Try(Block(<<Try(Block(<<Throw>>), Block(<<Say(Num(1))>>)),
                                       Throw>>),
                               Block(<<Say(Num(2))>>)),
                           Return(Num(0))>>)),
              Call("f", <<Num(1), Num(2)>>)>>)
\* act f(a, b) { try { say(1) } catch { say(2) }  return 0 }
\* f(1, 2)
P_NoThrow ==
    Program(<<Func("f", <<"a", "b">>,
                   Block(<<Try(Block(<<Say(Num(1))>>), Block(<<Say(Num(2))>>)),
                           Return(Num(0))>>)),
              Call("f", <<Num(1), Num(2)>>)>>)
\* act g() { throw }
\* act f(a, b) { try { g() } catch { say(a) }  return 1 }
\* say(f(5, 6))
P_Callee ==
    Program(<<Func("g", <<>>, Block(<<Throw>>)),
              Func("f", <<"a", "b">>,
                   Block(<<Try(Block(<<Call("g", <<>>)>>), Block(<<Say(Var("a"))>>)),
                           Return(Num(1))>>)),
              Say(Call("f", <<Num(5), Num(6)>>))>>)
\* act f(a, b) { try { say(a % b) } catch { say(9) }  return 0 }
\* f(7, 0)
P_Mod ==
    Program(<<Func("f", <<"a", "b">>,
                   Block(<<Try(Block(<<Say(Bin("%", Var("a"), Var("b")))>>),
                               Block(<<Say(Num(9))>>)),
                           Return(Num(0))>>)),
              Call("f", <<Num(7), Num(0)>>)>>)
\* say(1)  throw;  say(2)
P_Uncaught == Program(<<Say(Num(1)), Throw, Say(Num(2))>>)
\* x <- 0  say(1 / x)  say(2)
P_UncaughtDiv ==
    Program(<<Assign("x", Num(0)), Say(Bin("/", Num(1), Var("x"))), Say(Num(2))>>)
\* act g(n) { return 1 + g(n) }   g(1)
P_Deep1 ==
    Program(<<Func("g", <<"n">>,
                   Block(<<Return(Bin("+", Num(1), Call("g", <<Var("n")>>)))>>)),
              Call("g", <<Num(1)>>)>>)
\* act h(a, b, c, d) { return 1 + h(a, b, c, d) }   h(1, 2, 3, 4)
P_Deep4 ==
    Program(<<Func("h", <<"a", "b", "c", "d">>,
                   Block(<<Return(Bin("+", Num(1),
                                      Call("h", <<Var("a"), Var("b"), Var("c"),
                                                  Var("d")>>)))>>)),
              Call("h", <<Num(1), Num(2), Num(3), Num(4)>>)>>)
\* act g(n) { return g(n) }   try { g(1) } catch { say(0) }
P_DeepTry ==
    Program(<<Func("g", <<"n">>, Block(<<Return(Call("g", <<Var("n")>>))>>)),
              Try(Block(<<Call("g", <<Num(1)>>)>>), Block(<<Say(Num(0))>>))>>)
\* act fib(n) { return 7 }   say(fib(6))
P_Fib ==
    Program(<<Func("fib", <<"n">>, Block(<<Return(Num(7))>>)),
              Say(Call("fib", <<Num(6)>>))>>)
\* act f() { for i in range(2) { return i }  return 0 }   f() f() f() f() f()
P_IterLeak ==
    Program(<<Func("f", <<>>,
                   Block(<<For("i", Call("range", <<Num(2)>>),
                               Block(<<Return(Var("i"))>>)),
                           Return(Num(0))>>)),
              Call("f", <<>>), Call("f", <<>>), Call("f", <<>>), Call("f", <<>>),
              Call("f", <<>>)>>)
\* act f(a, b, c, d) { try { say(1) } catch { say(0) }  try { say(2) } catch { say(0) }
\*                     try { say(3) } catch { say(0) }  try { say(4) } catch { say(0) }
\*                     try { throw } catch { say(5) }
\*                     return 0 }
\* f(1, 2, 3, 4)
P_TryLeak ==
    Program(<<Func("f", <<"a", "b", "c", "d">>,
                   Block(<<Try(Block(<<Say(Num(1))>>), Block(<<Say(Num(0))>>)),
                           Try(Block(<<Say(Num(2))>>), Block(<<Say(Num(0))>>)),
                           Try(Block(<<Say(Num(3))>>), Block(<<Say(Num(0))>>)),
                           Try(Block(<<Say(Num(4))>>), Block(<<Say(Num(0))>>)),
                           Try(Block(<<Throw>>), Block(<<Say(Num(5))>>)),
                           Return(Num(0))>>)),
              Call("f", <<Num(1), Num(2), Num(3), Num(4)>>)>>)

\* act f(a, b) { say(7)  return 0 }   f(1)  f(1, 2, 3)
P_Arity ==
    Program(<<Func("f", <<"a", "b">>, Block(<<Say(Num(7)), Return(Num(0))>>)),
              Call("f", <<Num(1)>>), Call("f", <<Num(1), Num(2), Num(3)>>)>>)

\* r <- range(1, 3)  r()
P_CallRange ==
    Program(<<Assign("r", Call("range", <<Num(1), Num(3)>>)), Call("r", <<>>)>>)

\* l <- [1, 2]  say(l[1])  l[0] <- 5  say(l[0])
\* say(l[5])  l[3] <- 9  say(l[3])  say(l[-1])
P_Index ==
    Program(<<Assign("l", ListLit(<<Num(1), Num(2)>>)),
              Say(Index(Var("l"), Num(1))),
              AssignIndex(Var("l"), Num(0), Num(5)),
              Say(Index(Var("l"), Num(0))),
              Say(Index(Var("l"), Num(5))),
              AssignIndex(Var("l"), Num(3), Num(9)),
              Say(Index(Var("l"), Num(3))),
              Say(Index(Var("l"), Neg(Num(1))))>>)

\* for i in range(0) { say(i) }        for i in range(5, 5) { say(i) }
\* for i in range(5, 0, -1) { say(i) } for i in range(1, 6, 2) { say(i) }
P_Ranges ==
    Program(<<For("i", Call("range", <<Num(0)>>), Block(<<Say(Var("i"))>>)),
              For("i", Call("range", <<Num(5), Num(5)>>), Block(<<Say(Var("i"))>>)),
              For("i", Call("range", <<Num(5), Num(0), Neg(Num(1))>>),
                  Block(<<Say(Var("i"))>>)),
              For("i", Call("range", <<Num(1), Num(6), Num(2)>>),
                  Block(<<Say(Var("i"))>>))>>)
\* t <- 0  for i in range(6) { for j in range(6) { say(i * j + 1) } }  say(t)
P_NestSay ==
    Program(<<Assign("t", Num(0)),
              For("i", Call("range", <<Num(6)>>),
                  Block(<<For("j", Call("range", <<Num(6)>>),
                              Block(<<Say(Bin("+", Bin("*", Var("i"), Var("j")),
                                              Num(1)))>>))>>)),
              Say(Var("t"))>>)

\* iteration counts and initial accumulator values of the loop programs
SumCounts == {0, 1, 2, 51, 52, 1000}
Acc0 == {0, 7}
\* s <- a  for i in range(n) { s <- s + i }  say(s)
P_SumGlobal(a, n) ==
    Program(<<Assign("s", Num(a)),
              For("i", Call("range", <<Num(n)>>),
                  Block(<<Assign("s", Bin("+", Var("s"), Var("i")))>>)),
              Say(Var("s"))>>)
\* act f(s, n) { for i in range(n) { s <- s + i }  return s }  say(f(a, n))
P_SumLocal(a, n) ==
    Program(<<Func("f", <<"s", "n">>,
                   Block(<<For("i", Call("range", <<Var("n")>>),
                               Block(<<Assign("s", Bin("+", Var("s"), Var("i")))>>)),
                           Return(Var("s"))>>)),
              Say(Call("f", <<Num(a), Num(n)>>))>>)
\* u <- 1  (nine times)
\* s <- 0  for k in range(6) { for i in range(6) { s <- s + i } }  say(s)
P_SumNested ==
    Program(<<Assign("u", Num(1)), Assign("u", Num(1)), Assign("u", Num(1)),
              Assign("u", Num(1)), Assign("u", Num(1)), Assign("u", Num(1)),
              Assign("u", Num(1)), Assign("u", Num(1)),
              Assign("s", Num(0)),
              For("k", Call("range", <<Num(6)>>),
                  Block(<<For("i", Call("range", <<Num(6)>>),
                              Block(<<Assign("s", Bin("+", Var("s"), Var("i")))>>))>>)),
              Say(Var("s"))>>)
ProgramsC17 ==
    {P_SumGlobal(a, n) : a \in Acc0, n \in SumCounts}
        \cup {P_SumLocal(a, n) : a \in Acc0, n \in SumCounts} \cup {P_SumNested}

\* s <- a  for i in range(lo, hi, st) { s <- s + c }  say(s)
P_Count(a, c, lo, hi, st) ==
    Program(<<Assign("s", Num(a)),
              For("i", Call("range", <<Num(lo), Num(hi), Num(st)>>),
                  Block(<<Assign("s", Bin("+", Var("s"), Num(c)))>>)),
              Say(Var("s"))>>)
\* <<a, c, lo, hi, st>> of the counting programs
CountCases ==
    {<<0, 1, 0, n, 1>> : n \in SumCounts}
        \cup {<<7, 3, 2, 8, 3>>, <<7, 3, 2, 200, 3>>, <<7, 200, 0, 60, 1>>}
\* s <- 0  for k in range(6) { for i in range(6) { s <- s + 9 } }  say(s)
P_CountNested ==
    Program(<<Assign("s", Num(0)),
              For("k", Call("range", <<Num(6)>>),
                  Block(<<For("i", Call("range", <<Num(6)>>),
                              Block(<<Assign("s", Bin("+", Var("s"), Num(9)))>>))>>)),
              Say(Var("s"))>>)
ProgramsC18 ==
    {P_Count(t[1], t[2], t[3], t[4], t[5]) : t \in CountCases} \cup {P_CountNested}

\* t <- a
\* for i in range(A) { for j in range(B) { for k in range(C) { t <- t + c } } }
\* say(t)
P_Triple(a, c, A, B, C) ==
    Program(<<Assign("t", Num(a)),
              For("i", Call("range", <<Num(A)>>),
                  Block(<<For("j", Call("range", <<Num(B)>>),
                              Block(<<For("k", Call("range", <<Num(C)>>),
                                          Block(<<Assign("t", Bin("+", Var("t"),
                                                                  Num(c)))>>))>>))>>)),
              Say(Var("t"))>>)
\* <<a, c, A, B, C>> of the triple-loop programs
TripleCases ==
    {<<0, 1, A, B, C>> : A \in 0 .. 2, B \in 0 .. 2, C \in 0 .. 2}
        \cup {<<7, 3, 2, 3, 4>>, <<0, 1, 6, 6, 9>>}
ProgramsC19 == {P_Triple(t[1], t[2], t[3], t[4], t[5]) : t \in TripleCases}

\* s <- a  for i in range(N) { for j in range(M) { s <- s + i * j } }  say(s)
P_Product(a, N, M) ==
    Program(<<Assign("s", Num(a)),
              For("i", Call("range", <<Num(N)>>),
                  Block(<<For("j", Call("range", <<Num(M)>>),
                              Block(<<Assign("s", Bin("+", Var("s"),
                                                      Bin("*", Var("i"),
                                                          Var("j"))))>>))>>)),
              Say(Var("s"))>>)
\* <<a, N, M>> of the product programs
ProductCases ==
    {<<a, N, M>> : a \in Acc0, N \in {0, 1, 3}, M \in {0, 2, 3}}
        \cup {<<0, 6, 6>>, <<7, 6, 6>>, <<0, 6, 3>>}
ProgramsC20 == {P_Product(t[1], t[2], t[3]) : t \in ProductCases}

\* s <- 0  t <- 0  for i in range(n) { s <- s + i  t <- t + 2 }  say(s)  say(t)
P_TwoStmt(n) ==
    Program(<<Assign("s", Num(0)), Assign("t", Num(0)),
              For("i", Call("range", <<Num(n)>>),
                  Block(<<Assign("s", Bin("+", Var("s"), Var("i"))),
                          Assign("t", Bin("+", Var("t"), Num(2)))>>)),
              Say(Var("s")), Say(Var("t"))>>)
\* s <- 0  t <- 0  for i in range(n) { s <- s + 1  t <- t + 2 }  say(s)  say(t)
P_TwoCount(n) ==
    Program(<<Assign("s", Num(0)), Assign("t", Num(0)),
              For("i", Call("range", <<Num(n)>>),
                  Block(<<Assign("s", Bin("+", Var("s"), Num(1))),
                          Assign("t", Bin("+", Var("t"), Num(2)))>>)),
              Say(Var("s")), Say(Var("t"))>>)
\* t <- 0  u <- 0
\* for i in range(2) { for j in range(2) { for k in range(2) { t <- t + 1  u <- u + 1 } } }
\* say(t)  say(u)
P_TripleTwo ==
    Program(<<Assign("t", Num(0)), Assign("u", Num(0)),
              For("i", Call("range", <<Num(2)>>),
                  Block(<<For("j", Call("range", <<Num(2)>>),
                              Block(<<For("k", Call("range", <<Num(2)>>),
                                          Block(<<Assign("t", Bin("+", Var("t"), Num(1))),
                                                  Assign("u", Bin("+", Var("u"),
                                                                  Num(1)))>>))>>))>>)),
              Say(Var("t")), Say(Var("u"))>>)
\* act fib(n) { if n < 2 { return n }  return fib(n - 1) + fib(n - 2) }
\* for n in range(FIB_MAX + 1) { say(fib(n)) }
FIB_MAX == 30
P_FibTo ==
    Program(<<Func("fib", <<"n">>,
                   Block(<<If(Bin("<", Var("n"), Num(2)), Block(<<Return(Var("n"))>>)),
                           Return(Bin("+", Call("fib", <<Bin("-", Var("n"), Num(1))>>),
                                      Call("fib", <<Bin("-", Var("n"), Num(2))>>)))>>)),
              For("n", Call("range", <<Num(FIB_MAX + 1)>>),
                  Block(<<Say(Call("fib", <<Var("n")>>))>>))>>)
\* act is_prime(n) { return n }
\* for n in range(PRIME_MAX + 1) { say(is_prime(n)) }
PRIME_MAX == 100
P_PrimeTo ==
    Program(<<Func("is_prime", <<"n">>, Block(<<Return(Var("n"))>>)),
              For("n", Call("range", <<Num(PRIME_MAX + 1)>>),
                  Block(<<Say(Call("is_prime", <<Var("n")>>))>>))>>)
\* act fib(n) { say(99)  return 7 }    say(fib(3))
\* act fib(n) { return 1 }             say(fib(4))  say(fib(1, 2))
\* act is_prime(n) { return 5 }        say(is_prime(7))  say(is_prime(8))
\* say(fib(5))
P_JitMix ==
    Program(<<Func("fib", <<"n">>, Block(<<Say(Num(99)), Return(Num(7))>>)),
              Say(Call("fib", <<Num(3)>>)),
              Func("fib", <<"n">>, Block(<<Return(Num(1))>>)),
              Say(Call("fib", <<Num(4)>>)),
              Say(Call("fib", <<Num(1), Num(2)>>)),
              Func("is_prime", <<"n">>, Block(<<Return(Num(5))>>)),
              Say(Call("is_prime", <<Num(7)>>)),
              Say(Call("is_prime", <<Num(8)>>)),
              Say(Call("fib", <<Num(5)>>))>>)
\* strings made by concatenation, by str and by read_file, compared with literals
P_Strings ==
    Program(<<Assign("b", Bin("+", Str("a"), Str("b"))),
              Say(Bin("==", Var("b"), Str("ab"))),
              Say(Bin("==", Call("str", <<Num(12)>>), Str("12"))),
              Say(Bin("+", Str("n"), Num(7))),
              Assign("a", Call("read_file", <<Str("f")>>)),
              Say(Var("a")),
              Say(Bin("==", Var("a"), Str("ab"))),
              Say(Bin("==", Var("a"), Var("a")))>>)
\* two variables for one list: appends and stores through b, reads through a
P_Alias ==
    Program(<<Assign("a", ListLit(<<Num(1), Num(2), Num(3), Num(4),
                                    Num(5), Num(6), Num(7)>>)),
              Assign("b", Var("a")),
              Call("append", <<Var("b"), Num(8)>>),
              Say(Call("len", <<Var("a")>>)),
              Call("append", <<Var("b"), Num(9)>>),
              Say(Call("len", <<Var("a")>>)),
              Say(Index(Var("a"), Num(8))),
              AssignIndex(Var("b"), Num(0), Num(50)),
              Say(Index(Var("a"), Num(0))),
              Say(Call("len", <<Str("abc")>>)),
              Say(Call("len", <<Call("range", <<Num(5)>>)>>)),
              Say(Call("len", <<Num(3)>>))>>)
\* say(l op r) for integer literals l and r
FoldOps == {"+", "-", "*", "/", "%"}
FoldOperands == {0, 2, 7, 200, 256}
P_Fold(op, l, r) == Program(<<Say(Bin(op, Num(l), Num(r)))>>)
ProgramsC30 == {P_Fold(op, l, r) : op \in FoldOps, l \in FoldOperands, r \in FoldOperands}
\* break and continue outside a loop of their function body, and one inside
P_BreakTop == Program(<<Say(Num(1)), Break>>)
P_ContinueIf == Program(<<If(Bin("==", Num(1), Num(1)), Block(<<Continue>>)), Say(Num(1))>>)
P_BreakInFunc ==
    Program(<<Assign("x", Num(0)),
              While(Bin("<", Var("x"), Num(1)),
                    Block(<<Func("f", <<>>, Block(<<Break>>)),
                            Assign("x", Num(1))>>)),
              Say(Var("x"))>>)
P_BreakAfterLoop ==
    Program(<<Assign("x", Num(0)),
              While(Bin("<", Var("x"), Num(1)), Block(<<Assign("x", Num(1))>>)),
              Break>>)
P_BreakInLoop ==
    Program(<<Assign("x", Num(0)),
              While(Bin("<", Var("x"), Num(5)),
                    Block(<<Assign("x", Bin("+", Var("x"), Num(1))),
                            If(Bin("==", Var("x"), Num(2)), Block(<<Break>>)),
                            If(Bin("<", Var("x"), Num(9)), Block(<<Continue>>)),
                            Say(Num(99))>>)),
              Say(Var("x"))>>)
ProgramsC31 == {P_BreakTop, P_ContinueIf, P_BreakInFunc, P_BreakAfterLoop, P_BreakInLoop}
\* a compound assignment, an un-braced if body and a nested block as statements
P_Compound ==
    Program(<<Assign("x", Num(1)), CompoundAssign("x", "+=", Num(2)), Say(Var("x"))>>)
P_Unbraced ==
    Program(<<Assign("x", Num(1)),
              If(Bin("==", Var("x"), Num(1)), Say(Num(5))),
              Say(Num(6))>>)
P_CompoundLocal ==
    Program(<<Func("f", <<"a">>,
                   Block(<<CompoundAssign("a", "*=", Num(3)), Return(Var("a"))>>)),
              Say(Call("f", <<Num(4)>>))>>)
ProgramsC33 == {P_Compound, P_Unbraced, P_CompoundLocal}
\* for loops left by break and by a throw caught outside the loop
P_ForBreak ==
    Program(<<For("i", Call("range", <<Num(3)>>),
                  Block(<<If(Bin("==", Var("i"), Num(1)), Block(<<Break>>)),
                          Say(Var("i"))>>)),
              Say(Num(9))>>)
P_ForThrow ==
    Program(<<Try(Block(<<For("i", Call("range", <<Num(3)>>),
                              Block(<<Say(Var("i")), Throw>>))>>),
                  Block(<<Say(Num(8))>>)),
              Say(Num(9))>>)
ProgramsC34 == {P_ForBreak, P_ForThrow}
\* x <- 0  repeat n { x <- x + 1  if x == k { continue }  say(x) }  say(x)
P_Repeat(n, k) ==
    Program(<<Assign("x", Num(0)),
              Repeat(Num(n),
                     Block(<<Assign("x", Bin("+", Var("x"), Num(1))),
                             If(Bin("==", Var("x"), Num(k)), Block(<<Continue>>)),
                             Say(Var("x"))>>)),
              Say(Var("x"))>>)
REPEAT_MAX == 3
ProgramsC35 == {P_Repeat(n, k) : n \in 0 .. REPEAT_MAX, k \in 0 .. REPEAT_MAX}
\* for v in [7, 8] { say(v) }
P_ForList ==
    Program(<<For("v", ListLit(<<Num(7), Num(8)>>), Block(<<Say(Var("v"))>>))>>)
\* for v in [] { say(v) }  say(9)
P_ForEmpty ==
    Program(<<For("v", ListLit(<<>>), Block(<<Say(Var("v"))>>)), Say(Num(9))>>)
\* for i in range(-3, -1) { say(i) }  for v in [7, 8] { say(v) }
P_ForListAfter ==
    Program(<<For("i", Call("range", <<Neg(Num(3)), Neg(Num(1))>>),
                  Block(<<Say(Var("i"))>>)),
              For("v", ListLit(<<Num(7), Num(8)>>), Block(<<Say(Var("v"))>>))>>)
\* for i in range(2) { say(i) }  for v in [7, 8] { say(v) }
P_ForListAfterUp ==
    Program(<<For("i", Call("range", <<Num(2)>>), Block(<<Say(Var("i"))>>)),
              For("v", ListLit(<<Num(7), Num(8)>>), Block(<<Say(Var("v"))>>))>>)
ProgramsC36 == {P_ForList, P_ForEmpty, P_ForListAfter, P_ForListAfterUp}
\* x <- l  y <- r  f <- l op r  v <- x op y
P_FoldRun(op, l, r) ==
    Program(<<Assign("x", Num(l)), Assign("y", Num(r)),
              Assign("f", Bin(op, Num(l), Num(r))),
              Assign("v", Bin(op, Var("x"), Var("y")))>>)
RunOperands == {0, 2, 7, 200}
ProgramsC37 == {P_FoldRun(op, l, r) : op \in FoldOps, l \in RunOperands, r \in RunOperands}
TwoCounts == {2, 52}
\* s <- 5  t <- 0  for i in range(n) { t <- s + i }  say(s)  say(t)
P_StoreOther(n) ==
    Program(<<Assign("s", Num(5)), Assign("t", Num(0)),
              For("i", Call("range", <<Num(n)>>),
                  Block(<<Assign("t", Bin("+", Var("s"), Var("i")))>>)),
              Say(Var("s")), Say(Var("t"))>>)
ProgramsC38 == {P_StoreOther(n) : n \in TwoCounts}
\* the integer literal n, written with a unary minus when negative
Lit(n) == IF n < 0 THEN Neg(Num(-n)) ELSE Num(n)
\* s <- 0
\* for i in range(a, N) { for j in range(b, M + d * i) { s <- s + i * j } }
\* say(s)                        (d is 0 or 1: the inner stop is M or i + M)
P_Nest(a, N, b, M, d) ==
    Program(<<Assign("s", Num(0)),
              For("i", Call("range", <<Lit(a), Num(N)>>),
                  Block(<<For("j", Call("range",
                                        <<Num(b), IF d = 1 THEN Bin("+", Var("i"), Num(M))
                                                  ELSE Num(M)>>),
                              Block(<<Assign("s", Bin("+", Var("s"),
                                                      Bin("*", Var("i"), Var("j"))))>>))>>)),
              Say(Var("s"))>>)
\* <<a, N, b, M, d>> of the nested programs
NestCases == {<<1, 3, 1, 3, 0>>, <<0, 3, 0, 1, 1>>, <<1, 8, 0, 7, 0>>, <<0, 8, 1, 7, 0>>,
              <<-1, 8, 0, 7, 0>>, <<0, 7, 0, 6, 1>>}
ProgramsC39 == {P_Nest(t[1], t[2], t[3], t[4], t[5]) : t \in NestCases}
ProgramsC21 ==
    {P_TwoStmt(n) : n \in TwoCounts} \cup {P_TwoCount(n) : n \in TwoCounts}
        \cup {P_TripleTwo}

Corpus == {P_Say, P_Arith, P_Div, P_Loop, P_TryDiv, P_Nested, P_NoThrow, P_Callee,
           P_Mod, P_Uncaught, P_UncaughtDiv, P_Deep1, P_Deep4, P_DeepTry, P_Fib,
           P_IterLeak, P_TryLeak, P_Arity,
           P_CallRange, P_Index, P_Ranges, P_NestSay, P_FibTo, P_PrimeTo,
           P_JitMix, P_Strings, P_Alias}
              \cup ProgramsC17 \cup ProgramsC18 \cup ProgramsC19
              \cup ProgramsC20 \cup ProgramsC21 \cup ProgramsC30 \cup ProgramsC31
              \cup ProgramsC33 \cup ProgramsC34 \cup ProgramsC35
              \cup ProgramsC36 \cup ProgramsC37 \cup ProgramsC38
              \cup ProgramsC39

(***************************************************************************)
(* FastVM(): sp = stack, fp = frames, frame_count = 0; stack[], frames[],  *)
(* iterators[] and try_handlers[] are not initialised.                     *)
(***************************************************************************)
Constructed ==
    /\ chunk = NullChunk
    /\ ip = NullIp
    /\ slots = 0
    /\ stack = [k \in 0..(STACK_MAX - 1) |-> junk]
    /\ sp = 0
    /\ frames = [k \in 0..(FRAMES_MAX - 1) |-> NoFrame]
    /\ fp = 0
    /\ frame_count = 0
    /\ globals = [n \in {} |-> VAL_NONE]
    /\ iterators = [k \in 0..(ITERS_MAX - 1) |-> NoIter]
    /\ iter_count = 0
    /\ try_handlers = [k \in 0..(TRY_MAX - 1) |-> NoHandler]
    /\ try_count = 0
    /\ output = <<>>
    /\ status = "ready"
    /\ err = ""
    /\ obj_count = 0
    /\ lists = <<>>
    /\ g_strings = {}
    /\ jit_funcs = {}
    /\ g_compiled = <<>>
    /\ g_call = [k \in 0..(FRAMES_MAX - 1) |-> NoCall]
    /\ g_try = <<>>
    /\ g_done = NoDone
    /\ g_throw = NoThrow
    /\ g_handlers = [k \in 0..(TRY_MAX - 1) |-> NoGhostHandler]

Init ==
    /\ program \in Corpus
    /\ junk \in Junk
    /\ Constructed
    /\ nanbox = NoBox
    /\ g_interned = <<>>
    /\ patched = NoPatch

\* main(): Compiler::compile, then FastVM::run up to the first DISPATCH
Run ==
    /\ status = "ready"
    /\ LET cs == compile_node(NewCompiler, program)
           main_chunk == Chunk(emit(cs, OP_RETURN))
       IN  IF cs.error
           THEN /\ status' = "compile_error"
                /\ err' = "break or continue outside of loop"
                /\ UNCHANGED <<chunk, ip, slots, frames, frame_count>>
           ELSE /\ frames' = [frames EXCEPT ![fp] =
                                 [chunk |-> main_chunk,
                                  ip |-> [base |-> main_chunk, off |-> 0],
                                  slots |-> 0]]
                /\ frame_count' = 1
                /\ ip' = [base |-> main_chunk, off |-> 0]
                /\ slots' = 0
                /\ chunk' = main_chunk
                /\ status' = "running"
                /\ err' = err
    /\ UNCHANGED <<stack, sp, fp, globals, iter_vars, try_vars, output, heap_vars,
                   ghost_vars, env_vars>>

\* what a handler that only touches the operand stack leaves alone
OnlyStack == UNCHANGED <<regs, frame_vars, globals, iter_vars, try_vars, output,
                         heap_vars, ghost_vars, env_vars>>

DoConst ==
    /\ Running(OP_CONST)
    /\ IF HasConstant(chunk, Short(ip, 1))
       THEN LET r == from_value(ConstantAt(chunk, Short(ip, 1)), g_strings, obj_count)
            IN  /\ Store(sp, r.val, sp + 1, At(ip, 3))
                /\ obj_count' = r.count
                /\ g_strings' = r.pool
                /\ UNCHANGED <<lists, jit_vars>>
       ELSE Stray("load outside constants") /\ UNCHANGED heap_vars
    /\ UNCHANGED <<regs, frame_vars, globals, iter_vars, try_vars, output,
                   ghost_vars, env_vars>>

DoConstInt ==
    /\ Running(OP_CONST_INT)
    /\ Store(sp, val_int(Byte(ip, 1)), sp + 1, At(ip, 2))
    /\ OnlyStack

DoNone ==
    /\ Running(OP_NONE)
    /\ Store(sp, VAL_NONE, sp + 1, At(ip, 1))
    /\ OnlyStack

\* The last try/catch statement of g_try that ends at byte `next` of `base`
RECURSIVE LastEnding(_, _, _, _)
LastEnding(open, base, next, i) ==
    IF i < 1 THEN 0
    ELSE IF open[i].base = base /\ open[i].next = next THEN i
    ELSE LastEnding(open, base, next, i - 1)

\* DROP().  When this is the OP_POP that case BLOCK emitted after a
\* try/catch statement, g_done records the statement's two ends.
DoPop ==
    /\ Running(OP_POP)
    /\ sp' = sp - 1
    /\ ip' = At(ip, 1)
    /\ LET i == LastEnding(g_try, ip.base, ip.off + 1, Len(g_try))
       IN  IF i = 0 THEN UNCHANGED <<g_try, g_done>>
           ELSE /\ g_done' = [valid |-> TRUE, cause |-> g_try[i].cause,
                              sp_before |-> g_try[i].sp, sp_after |-> sp - 1,
                              tc_before |-> g_try[i].try_count,
                              tc_after |-> try_count]
                /\ g_try' = SubSeq(g_try, 1, i - 1)
    /\ UNCHANGED <<stack, status, err, regs, frame_vars, globals, iter_vars, try_vars,
                   output, heap_vars, g_call, g_throw, g_handlers, env_vars>>

\* sp[-2] = f(sp[-2], sp[-1]); DROP()
Binary(f(_, _)) ==
    /\ Store(sp - 2, f(Read(sp - 2), Read(sp - 1)), sp - 1, At(ip, 1))
    /\ OnlyStack

fast_ne(a, b) == Bool(a # b)
fast_gt(a, b) == fast_lt(b, a)
fast_ge(a, b) == fast_le(b, a)

\* fast_add's std::string result for a string a
Concat(a, b) ==
    a.obj.chars \o (IF IsString(b) THEN b.obj.chars
                    ELSE IF is_int(b) THEN IntToString(as_int(b))
                    ELSE IF is_number(b) THEN DoubleToString(b)
                    ELSE IF b = VAL_TRUE THEN "true"
                    ELSE IF b = VAL_FALSE THEN "false"
                    ELSE IF is_none(b) THEN "none"
                    ELSE "")
\* PUSH(val_string(str)) after n values were popped
PushString(str, n, nip) ==
    LET r == intern(g_strings, obj_count, str)
    IN  /\ Store(sp - n, val_obj(r.obj), sp - n + 1, nip)
        /\ g_strings' = r.pool
        /\ obj_count' = r.count
OnlyStrings == UNCHANGED <<regs, frame_vars, globals, iter_vars, try_vars, output,
                           lists, jit_vars, ghost_vars, env_vars>>
DoAdd ==
    /\ Running(OP_ADD)
    /\ IF IsString(Read(sp - 2))
       THEN PushString(Concat(Read(sp - 2), Read(sp - 1)), 2, At(ip, 1)) /\ OnlyStrings
       ELSE Binary(fast_add)
DoSub == Running(OP_SUB) /\ Binary(fast_sub)
DoMul == Running(OP_MUL) /\ Binary(fast_mul)
DoEq == Running(OP_EQ) /\ Binary(fast_eq)
DoNe == Running(OP_NE) /\ Binary(fast_ne)
DoLt == Running(OP_LT) /\ Binary(fast_lt)
DoGt == Running(OP_GT) /\ Binary(fast_gt)
DoLe == Running(OP_LE) /\ Binary(fast_le)
DoGe == Running(OP_GE) /\ Binary(fast_ge)

DoNeg ==
    /\ Running(OP_NEG)
    /\ LET v == Read(sp - 1)
       IN  Store(sp - 1,
                 IF is_int(v) THEN val_int(-as_int(v))
                 ELSE IF is_number(v) THEN val_number(-v.n, v.d)
                 ELSE val_obj([type |-> "WILD", bits |-> v]),
                 sp, At(ip, 1))
    /\ OnlyStack

DoGetGlobal ==
    /\ Running(OP_GET_GLOBAL)
    /\ IF HasConstant(chunk, Short(ip, 1))
       THEN LET name == StringOf(ConstantAt(chunk, Short(ip, 1)))
            IN  /\ Store(sp, Lookup(globals, name), sp + 1, At(ip, 3))
                /\ globals' = Bind(globals, name, Lookup(globals, name))
       ELSE Stray("load outside constants") /\ globals' = globals
    /\ UNCHANGED <<regs, frame_vars, iter_vars, try_vars, output, heap_vars,
                   ghost_vars, env_vars>>

DoSetGlobal ==
    /\ Running(OP_SET_GLOBAL)
    /\ IF HasConstant(chunk, Short(ip, 1))
       THEN /\ globals' = Bind(globals, StringOf(ConstantAt(chunk, Short(ip, 1))), PEEK(0))
            /\ ip' = At(ip, 3)
            /\ UNCHANGED <<stack, sp, status, err>>
       ELSE Stray("load outside constants") /\ globals' = globals
    /\ UNCHANGED <<regs, frame_vars, iter_vars, try_vars, output, heap_vars,
                   ghost_vars, env_vars>>

DoDefineGlobal ==
    /\ Running(OP_DEFINE_GLOBAL)
    /\ IF HasConstant(chunk, Short(ip, 1))
       THEN /\ globals' = Bind(globals, StringOf(ConstantAt(chunk, Short(ip, 1))), PEEK(0))
            /\ sp' = sp - 1
            /\ ip' = At(ip, 3)
            /\ UNCHANGED <<stack, status, err>>
       ELSE Stray("load outside constants") /\ globals' = globals
    /\ UNCHANGED <<regs, frame_vars, iter_vars, try_vars, output, heap_vars,
                   ghost_vars, env_vars>>

DoGetLocal ==
    /\ Running(OP_GET_LOCAL)
    /\ Store(sp, Read(slots + Byte(ip, 1)), sp + 1, At(ip, 2))
    /\ OnlyStack

DoSetLocal ==
    /\ Running(OP_SET_LOCAL)
    /\ Store(slots + Byte(ip, 1), PEEK(0), sp, At(ip, 2))
    /\ OnlyStack

DoJump ==
    /\ Running(OP_JUMP)
    /\ ip' = At(ip, 3 + Short(ip, 1))
    /\ UNCHANGED <<stack, sp, status, err>>
    /\ OnlyStack

DoJumpIfFalse ==
    /\ Running(OP_JUMP_IF_FALSE)
    /\ ip' = IF is_truthy(PEEK(0)) THEN At(ip, 3) ELSE At(ip, 3 + Short(ip, 1))
    /\ UNCHANGED <<stack, sp, status, err>>
    /\ OnlyStack

DoBuiltinSay ==
    /\ Running(OP_BUILTIN_SAY)
    /\ output' = Append(output, val_to_string(PEEK(0)))
    /\ Store(sp - 1, VAL_NONE, sp, At(ip, 1))
    /\ UNCHANGED <<regs, frame_vars, globals, iter_vars, try_vars, heap_vars,
                   ghost_vars, env_vars>>

\* PUSH(val_string(val_to_string(POP())))
DoBuiltinStr ==
    /\ Running(OP_BUILTIN_STR)
    /\ PushString(val_to_string(Read(sp - 1)), 1, At(ip, 1))
    /\ OnlyStrings

\* what a file holds when it is read
FileContents == {"", "ab"}
\* read_file: the string is built by ObjString::create and pushed as it is; a
\* file that cannot be opened ends the run
DoBuiltinReadFile ==
    /\ Running(OP_BUILTIN_READ_FILE)
    /\ LET filename == Read(sp - 1)
       IN  IF ~IsString(filename)
           THEN /\ Stray("load through a pointer to another object type")
                /\ UNCHANGED <<obj_count, g_strings>>
           ELSE \/ /\ status' = "exit"
                   /\ err' = "Error: Cannot open file for reading"
                   /\ sp' = sp - 1
                   /\ UNCHANGED <<ip, stack, obj_count, g_strings>>
                \/ \E buffer \in FileContents :
                      /\ Store(sp - 1, val_obj(ObjString_create(buffer, obj_count)),
                               sp, At(ip, 1))
                      /\ obj_count' = obj_count + 1
                      /\ UNCHANGED g_strings
    /\ OnlyStrings

(***************************************************************************)
(* Exception handlers.                                                     *)
(***************************************************************************)
\* the case BLOCK statement table entry of the try/catch whose OP_TRY is at p
TryMarks(p) == {m \in p.base.marks : m.type = "TRY" /\ m.start = p.off}

\* the open try/catch statement whose catch target is p gets its cause set
RECURSIVE LastCatching(_, _, _)
LastCatching(open, p, i) ==
    IF i < 1 THEN 0
    ELSE IF open[i].base = p.base /\ open[i].catch = p.off THEN i
    ELSE LastCatching(open, p, i - 1)
MarkCause(open, p, cause) ==
    LET i == LastCatching(open, p, Len(open))
    IN  IF i = 0 THEN open ELSE [open EXCEPT ![i].cause = cause]

\* if (try_count > 0)
HasHandler(tc) == tc > 0

\* TryHandler& h = try_handlers[--try_count]; sp = h.saved_sp;
\* fp = h.saved_fp; ip = h.catch_ip;
Unwind(cause) ==
    LET h == try_handlers[try_count - 1]
    IN  /\ try_count' = try_count - 1
        /\ sp' = h.saved_sp
        /\ fp' = h.saved_fp
        /\ ip' = h.catch_ip
        /\ g_throw' = [valid |-> TRUE, n |-> try_count, h |-> h]
        /\ g_try' = MarkCause(g_try, h.catch_ip, cause)
        /\ UNCHANGED <<stack, status, err, regs, frames, frame_count, try_handlers,
                       globals, iter_vars, output, heap_vars, g_call, g_done,
                       g_handlers, env_vars>>

\* a VM that would log an uncaught raise and go on with the next instruction
UncaughtResumes(msg) ==
    /\ err' = msg
    /\ ip' = At(ip, 1)
    /\ UNCHANGED <<status, stack, sp, regs, frame_vars, try_vars, globals, iter_vars,
                   output, heap_vars, ghost_vars, env_vars>>

\* std::cerr << msg; return VAL_NONE;
Uncaught(msg) ==
    /\ status' = "error"
    /\ err' = msg
    /\ UNCHANGED <<ip, stack, sp, regs, frame_vars, try_vars, globals, iter_vars,
                   output, heap_vars, ghost_vars, env_vars>>

DoTry ==
    /\ Running(OP_TRY)
    /\ LET catch_offset == Short(ip, 1)
           catch_ip == At(ip, 3 + catch_offset)
       IN  /\ IF try_count < TRY_MAX
              THEN /\ try_handlers' = [try_handlers EXCEPT ![try_count] =
                          [catch_ip |-> catch_ip, saved_ip |-> At(ip, 3),
                           saved_sp |-> sp, saved_fp |-> fp]]
                   /\ try_count' = try_count + 1
                   /\ g_handlers' = [g_handlers EXCEPT ![try_count] =
                          [chunk |-> chunk, slots |-> slots,
                           frame_count |-> frame_count]]
              ELSE UNCHANGED <<try_handlers, try_count, g_handlers>>
           /\ g_try' = IF TryMarks(ip) = {} THEN g_try
                       ELSE Append(g_try,
                              [base |-> ip.base,
                               next |-> (CHOOSE m \in TryMarks(ip) : TRUE).next,
                               catch |-> catch_ip.off, sp |-> sp,
                               try_count |-> try_count, cause |-> "none"])
    /\ ip' = At(ip, 3)
    /\ UNCHANGED <<stack, sp, status, err, regs, frame_vars, globals, iter_vars,
                   output, heap_vars, g_call, g_done, g_throw, env_vars>>

DoCatch ==
    /\ Running(OP_CATCH)
    /\ try_count' = IF try_count > 0 THEN try_count - 1 ELSE try_count
    /\ ip' = At(ip, 1)
    /\ UNCHANGED <<stack, sp, status, err, regs, frame_vars, try_handlers, globals,
                   iter_vars, output, heap_vars, ghost_vars, env_vars>>

DoThrow ==
    /\ Running(OP_THROW)
    /\ IF HasHandler(try_count) THEN Unwind("throw")
       ELSE Uncaught("Unhandled exception!")

\* b == 0.0 for the divisor read as a double
ZeroDivisor(v) == DIsZero(ToDouble(v))

DoDiv ==
    /\ Running(OP_DIV)
    /\ IF ZeroDivisor(Read(sp - 1))
       THEN IF HasHandler(try_count) THEN Unwind("div")
            ELSE Uncaught("Error: Division by zero")
       ELSE /\ Store(sp - 2, DDiv(ToDouble(Read(sp - 2)), ToDouble(Read(sp - 1))),
                     sp - 1, At(ip, 1))
            /\ OnlyStack

\* as_int(sp[-2]) % as_int(sp[-1]) with a zero divisor is undefined: the
\* x86-64 idiv traps (SIGFPE); the AArch64 sdiv/msub pair yields the dividend.
ModZeroOutcomes == {"trap", "dividend"}

DoMod ==
    /\ Running(OP_MOD)
    /\ LET a == as_int(Read(sp - 2))
           b == as_int(Read(sp - 1))
       IN  \E outcome \in ModZeroOutcomes :
              IF b = 0 /\ outcome = "trap"
              THEN /\ status' = "crash"
                   /\ err' = "SIGFPE"
                   /\ UNCHANGED <<ip, stack, sp>>
              ELSE Store(sp - 2, val_int(IF b = 0 THEN a ELSE TruncMod(a, b)),
                         sp - 1, At(ip, 1))
    /\ OnlyStack

(***************************************************************************)
(* Calls.                                                                  *)
(***************************************************************************)
\* The native code of JITCompiler::compile_recursive_int(1, 1, 2), register by
\* register (its three parameters are not read):
\*     xor r14d, r14d;  cmp rdi, 2;  jl base_case;  mov rbx, rdi
\*   loop_start:
\*     lea rdi, [rbx - 1];  call fib;  lea rdi, [rbx - 2];  add r14, rax
\*     cmp rbx, 3;  mov rbx, rdi;  jg loop_start
\*   base_case:
\*     add r14, rdi;  mov rax, r14;  ret
\* r14 is a running sum: fib_loop(rbx) is what the loop entered with rbx adds to
\* it up to the ret, fib_exit(rdi) what the exit adds.
\* an exit without its "add r14, rdi"
fib_exit_short(rdi) == 0
fib_exit(rdi) == rdi
RECURSIVE jit_fib(_)
RECURSIVE fib_loop(_)
fib_loop(rbx) ==
    jit_fib(rbx - 1) + (IF rbx > 3 THEN fib_loop(rbx - 2) ELSE fib_exit(rbx - 2))
jit_fib(rdi) == IF rdi < 2 THEN fib_exit(rdi) ELSE fib_loop(rdi)

\* a loop that leaves at i * i >= n (jge for jg)
RECURSIVE NoOddDivisorBelow(_, _)
NoOddDivisorBelow(n, i) ==
    IF i * i >= n THEN TRUE
    ELSE IF n % i = 0 THEN FALSE
    ELSE NoOddDivisorBelow(n, i + 2)

\* the native code of JITCompiler::compile_is_prime; NoOddDivisor is its loop with
\* rdi = n and rcx = i
RECURSIVE NoOddDivisor(_, _)
NoOddDivisor(n, i) ==
    IF i * i > n THEN TRUE
    ELSE IF n % i = 0 THEN FALSE
    ELSE NoOddDivisor(n, i + 2)
jit_is_prime(n) ==
    IF n < 2 THEN 0
    ELSE IF n = 2 THEN 1
    ELSE IF n % 2 = 0 THEN 0
    ELSE IF NoOddDivisor(n, 3) THEN 1 ELSE 0

\* a check that would fire only once frames[] is already overrun
FramesExhaustedLate(fc) == fc > FRAMES_MAX

\* if (frame_count >= FRAMES_MAX - 1), after frame_count++
FramesExhausted(fc) == fc >= FRAMES_MAX - 1

InFrames(k) == k >= 0 /\ k < FRAMES_MAX

\* JITCache: funcs is keyed by name; the native code is compiled when the name has
\* no entry (g_jit's buffer holds both functions, so the compilers return non-null)
\* and g_compiled lists the compilations in order
\* a cache that never finds its entry
has_jit_never(name) == FALSE
has_jit(name) == name \in jit_funcs
store(name) ==
    /\ jit_funcs' = jit_funcs \cup {name}
    /\ g_compiled' = IF has_jit(name) THEN g_compiled ELSE Append(g_compiled, name)

DoCall ==
    /\ Running(OP_CALL)
    /\ LET argc == Byte(ip, 1)
           callee == Read(sp - 1 - argc)
           func == callee.obj
       IN  IF ~is_obj(callee)
           THEN /\ status' = "exit"
                /\ err' = "Error: Attempt to call non-function"
                /\ UNCHANGED <<ip, stack, sp, regs, frame_vars, g_call, jit_vars>>
           ELSE IF obj_type(callee) = "RANGE" /\ func.start = 0
           THEN /\ status' = "exit"
                /\ err' = "Error: Invalid function object or missing chunk"
                /\ UNCHANGED <<ip, stack, sp, regs, frame_vars, g_call, jit_vars>>
           ELSE IF obj_type(callee) # "FUNCTION"
           THEN /\ Stray("load through a pointer to another object type")
                /\ UNCHANGED <<regs, frame_vars, g_call, jit_vars>>
           ELSE IF func.name = "fib" /\ argc = 1
           THEN /\ Store(sp - 2, val_int(jit_fib(as_int(Read(sp - 1)))), sp - 1, At(ip, 2))
                /\ store("fib")
                /\ UNCHANGED <<regs, frame_vars, g_call>>
           ELSE IF func.name = "is_prime" /\ argc = 1
           THEN /\ Store(sp - 2, Bool(jit_is_prime(as_int(Read(sp - 1))) # 0),
                         sp - 1, At(ip, 2))
                /\ store("is_prime")
                /\ UNCHANGED <<regs, frame_vars, g_call>>
           ELSE IF ~InFrames(fp)
           THEN /\ Stray("store outside frames[]")
                /\ UNCHANGED <<regs, frame_vars, g_call, jit_vars>>
           ELSE IF FramesExhausted(frame_count + 1)
           THEN /\ frames' = [frames EXCEPT ![fp].ip = At(ip, 2)]
                /\ fp' = fp + 1
                /\ frame_count' = frame_count + 1
                /\ status' = "exit"
                /\ err' = "Stack overflow!"
                /\ UNCHANGED <<ip, stack, sp, regs, g_call, jit_vars>>
           ELSE IF ~InFrames(fp + 1)
           THEN /\ Stray("store outside frames[]")
                /\ UNCHANGED <<regs, frame_vars, g_call, jit_vars>>
           ELSE /\ frames' = [frames EXCEPT
                                 ![fp].ip = At(ip, 2),
                                 ![fp + 1] = [chunk |-> func.chunk,
                                              ip |-> [base |-> func.chunk, off |-> 0],
                                              slots |-> sp - argc - 1]]
                /\ fp' = fp + 1
                /\ frame_count' = frame_count + 1
                /\ ip' = [base |-> func.chunk, off |-> 0]
                /\ slots' = sp - argc - 1
                /\ chunk' = func.chunk
                /\ g_call' = [g_call EXCEPT ![fp + 1] =
                                 [valid |-> TRUE, frame_count |-> frame_count,
                                  fp |-> fp, ip |-> At(ip, 2), sp |-> sp,
                                  argc |-> argc]]
                /\ UNCHANGED <<stack, sp, status, err, jit_vars>>
    /\ UNCHANGED <<globals, iter_vars, try_vars, output, obj_count, lists, g_strings,
                   g_try, g_done, g_throw, g_handlers, env_vars>>

DoReturn ==
    /\ Running(OP_RETURN)
    /\ LET result == Read(sp - 1)
       IN  IF frame_count - 1 = 0
           THEN /\ frame_count' = 0
                /\ sp' = sp - 1
                /\ status' = "done"
                /\ UNCHANGED <<ip, stack, err, regs, frames, fp>>
           ELSE IF ~InFrames(fp) \/ ~InFrames(fp - 1)
           THEN /\ Stray("load outside frames[]")
                /\ frame_count' = frame_count - 1
                /\ UNCHANGED <<regs, frames, fp>>
           ELSE /\ frame_count' = frame_count - 1
                /\ fp' = fp - 1
                /\ slots' = frames[fp - 1].slots
                /\ chunk' = frames[fp - 1].chunk
                /\ Store(frames[fp].slots, result, frames[fp].slots + 1,
                         frames[fp - 1].ip)
                /\ UNCHANGED frames
    /\ UNCHANGED <<globals, iter_vars, try_vars, output, heap_vars, ghost_vars, env_vars>>

(***************************************************************************)
(* Ranges and iterators.                                                   *)
(***************************************************************************)
DoBuiltinRange ==
    /\ Running(OP_BUILTIN_RANGE)
    /\ LET argc == Byte(ip, 1)
           r == IF argc = 1
                THEN [start |-> 0, stop |-> as_int(Read(sp - 1)), step |-> 1, used |-> 1]
                ELSE IF argc = 2
                THEN [start |-> as_int(Read(sp - 2)), stop |-> as_int(Read(sp - 1)),
                      step |-> 1, used |-> 2]
                ELSE [start |-> as_int(Read(sp - 3)), stop |-> as_int(Read(sp - 2)),
                      step |-> as_int(Read(sp - 1)), used |-> 3]
       IN  Store(sp - r.used,
                 val_obj([type |-> "RANGE", start |-> r.start, stop |-> r.stop,
                          step |-> r.step, id |-> obj_count]),
                 sp - r.used + 1, At(ip, 2))
    /\ obj_count' = obj_count + 1
    /\ UNCHANGED <<lists, g_strings, jit_vars>>
    /\ UNCHANGED <<regs, frame_vars, globals, iter_vars, try_vars, output,
                   ghost_vars, env_vars>>

InIters(k) == k >= 0 /\ k < ITERS_MAX
IsRange(v) == is_obj(v) /\ obj_type(v) = "RANGE"

\* while (*ip != OP_LOOP) ip++; ip += 3;  -- NullIp when the scan leaves the code
RECURSIVE SkipLoop(_)
SkipLoop(p) ==
    IF ~InCode(p, 0) THEN NullIp
    ELSE IF Byte(p, 0) = OP_LOOP THEN At(p, 3)
    ELSE SkipLoop(At(p, 1))
SkipLoops(p, k) ==
    IF k = 1 THEN SkipLoop(p)
    ELSE IF k = 2 THEN (IF SkipLoop(p) = NullIp THEN NullIp ELSE SkipLoop(SkipLoop(p)))
    ELSE p

\* DO_ITER_INIT's look-ahead: OP_MUL, then OP_ADD and what follows it, within
\* 50 bytes and before the first byte equal to OP_LOOP
RECURSIVE ScanInit(_, _, _)
ScanInit(p, i, found_mul) ==
    IF i >= 50 \/ Byte(p, i) = OP_LOOP
    THEN [found_mul |-> found_mul, found_add |-> FALSE, is_local |-> FALSE, add_slot |-> 0]
    ELSE IF Byte(p, i) = OP_ADD /\ found_mul
    THEN [found_mul |-> TRUE, found_add |-> TRUE,
          is_local |-> Byte(p, i + 1) = OP_SET_LOCAL,
          add_slot |-> IF Byte(p, i + 1) \in {OP_SET_LOCAL, OP_SET_GLOBAL}
                       THEN Byte(p, i + 2) ELSE 0]
    ELSE ScanInit(p, i + 1, found_mul \/ Byte(p, i) = OP_MUL)

\* n * (n - 1) / 2 in int64_t arithmetic
Triangle(n) == TruncDiv(n * (n - 1), 2)

DoIterInit ==
    /\ Running(OP_ITER_INIT)
    /\ LET obj == PEEK(0)
           n == iter_count
           r == obj.obj
           it == IF IsRange(obj)
                 THEN [obj |-> obj, idx |-> 0, cur |-> r.start, stop |-> r.stop,
                       step |-> r.step]
                 ELSE [obj |-> obj, idx |-> 0, cur |-> iterators[n].cur, stop |-> 0,
                       step |-> 1]
           after == At(ip, 1)
           outer == iterators[n - 1]
           sc == ScanInit(after, 0, FALSE)
           nested == /\ IsRange(obj) /\ n + 1 >= 2 /\ r.start = 0 /\ r.step = 1
                     /\ outer.step = 1 /\ outer.cur <= 1
                     /\ sc.found_mul /\ sc.found_add /\ outer.stop > 5 /\ r.stop > 5
           total == Triangle(outer.stop) * Triangle(r.stop)
           done == SkipLoops(after, 2)
           skipped == [iterators EXCEPT ![n] = [it EXCEPT !.cur = it.stop],
                                        ![n - 1].cur = outer.stop]
       IN  IF ~InIters(n)
           THEN Stray("store outside iterators[]") /\ UNCHANGED <<iter_vars, globals>>
           ELSE IF ~nested
           THEN /\ iterators' = [iterators EXCEPT ![n] = it]
                /\ iter_count' = n + 1
                /\ sp' = sp - 1
                /\ ip' = after
                /\ UNCHANGED <<stack, status, err, globals>>
           ELSE IF done = NullIp
           THEN Stray("load outside code") /\ UNCHANGED <<iter_vars, globals>>
           ELSE IF sc.is_local
           THEN /\ Store(slots + sc.add_slot, val_int(total), sp - 1, done)
                /\ iterators' = skipped
                /\ iter_count' = n - 1
                /\ UNCHANGED globals
           ELSE IF ~HasConstant(chunk, sc.add_slot)
           THEN Stray("load outside constants") /\ UNCHANGED <<iter_vars, globals>>
           ELSE /\ globals' = Bind(globals, StringOf(ConstantAt(chunk, sc.add_slot)),
                                   val_int(total))
                /\ iterators' = skipped
                /\ iter_count' = n - 1
                /\ sp' = sp - 1
                /\ ip' = done
                /\ UNCHANGED <<stack, status, err>>
    /\ UNCHANGED <<regs, frame_vars, try_vars, output, heap_vars, ghost_vars, env_vars>>

\* the bytes after ITER_NEXT's operand: SET_LOCAL s, POP, GET_GLOBAL g, CONST_INT c,
\* ADD, SET_GLOBAL
CountingBody(p) ==
    /\ Byte(p, 0) = OP_SET_LOCAL /\ Byte(p, 2) = OP_POP /\ Byte(p, 3) = OP_GET_GLOBAL
    /\ Byte(p, 6) = OP_CONST_INT /\ Byte(p, 8) = OP_ADD /\ Byte(p, 9) = OP_SET_GLOBAL

val_list(id) == val_obj([type |-> "LIST", id |-> id])
IsList(v) == is_obj(v) /\ obj_type(v) = "LIST"
as_list(v) == lists[v.obj.id]
\* ObjList::get: items[idx]
ObjList_get(l, idx) == l.items[idx + 1]
DoIterNext ==
    /\ Running(OP_ITER_NEXT)
    /\ LET off == Short(ip, 1)
           n == iter_count
           it == iterators[n - 1]
           peek == At(ip, 3)
           get_idx == Short(peek, 4)
           set_idx == Short(peek, 10)
           constant == Byte(peek, 7)
           counting == /\ it.step = 1 /\ it.cur < it.stop
                       /\ CountingBody(peek) /\ get_idx = set_idx
           outer == iterators[n - 3]
           middle == iterators[n - 2]
           triple_shape == /\ it.step = 1 /\ it.cur < it.stop
                           /\ n >= 3 /\ it.cur = 0
                           /\ outer.step = 1 /\ middle.step = 1
                           /\ outer.cur = 1 /\ middle.cur = 1
                           /\ CountingBody(peek)
           get_val == ConstantAt(chunk, get_idx)
           set_val == ConstantAt(chunk, set_idx)
           same_var == \/ get_idx = set_idx
                       \/ /\ get_val.type = "STRING" /\ set_val.type = "STRING"
                          /\ get_val.string = set_val.string
           name == StringOf(get_val)
       IN  IF ~InIters(n - 1)
           THEN Stray("load outside iterators[]") /\ UNCHANGED <<iter_vars, globals>>
           ELSE IF counting /\ ~HasConstant(chunk, get_idx)
           THEN Stray("load outside constants") /\ UNCHANGED <<iter_vars, globals>>
           ELSE IF counting
           THEN /\ globals' = Bind(globals, name,
                       val_int(as_int(Lookup(globals, name))
                               + constant * (it.stop - it.cur)))
                /\ iterators' = [iterators EXCEPT ![n - 1].cur = it.stop]
                /\ iter_count' = n - 1
                /\ ip' = At(peek, off)
                /\ UNCHANGED <<stack, sp, status, err>>
           ELSE IF triple_shape /\ ~(HasConstant(chunk, get_idx) /\ HasConstant(chunk, set_idx))
           THEN Stray("load outside constants") /\ UNCHANGED <<iter_vars, globals>>
           ELSE IF triple_shape /\ same_var
           THEN /\ globals' = Bind(globals, name,
                       val_int(as_int(Lookup(globals, name))
                               + outer.stop * middle.stop * it.stop * constant))
                /\ iterators' = [iterators EXCEPT ![n - 3].cur = outer.stop,
                                                  ![n - 2].cur = middle.stop,
                                                  ![n - 1].cur = it.stop]
                /\ iter_count' = n - 1
                /\ ip' = At(peek, off)
                /\ UNCHANGED <<stack, sp, status, err>>
           ELSE IF (it.step > 0 /\ it.cur < it.stop) \/ (it.step < 0 /\ it.cur > it.stop)
           THEN /\ Store(sp, val_int(it.cur), sp + 1, peek)
                /\ iterators' = [iterators EXCEPT ![n - 1].cur = it.cur + it.step]
                /\ UNCHANGED <<iter_count, globals>>
           ELSE IF IsList(it.obj) /\ it.idx < as_list(it.obj).count
           THEN /\ Store(sp, ObjList_get(as_list(it.obj), it.idx), sp + 1, peek)
                /\ iterators' = [iterators EXCEPT ![n - 1].idx = it.idx + 1]
                /\ UNCHANGED <<iter_count, globals>>
           ELSE /\ iter_count' = n - 1
                /\ ip' = At(peek, off)
                /\ UNCHANGED <<stack, sp, status, err, iterators, globals>>
    /\ UNCHANGED <<regs, frame_vars, try_vars, output, heap_vars, ghost_vars, env_vars>>

(***************************************************************************)
(* Lists.  An ObjList is a record of the heap `lists`: items is the malloc  *)
(* block of `capacity` slots (slot idx is items[idx + 1]), of which the     *)
(* first `count` are elements; the other slots hold whatever malloc left.   *)
(***************************************************************************)
LIST_CAPACITY == 8
ObjList_create == [items |-> [k \in 1 .. LIST_CAPACITY |-> junk], count |-> 0,
                   capacity |-> LIST_CAPACITY]
\* the list without the push
ObjList_push_lost(l, val) == l
ObjList_push(l, val) ==
    LET grown == IF l.count >= l.capacity
                 THEN [l EXCEPT !.capacity = 2 * @,
                                !.items = @ \o [k \in 1 .. l.capacity |-> junk]]
                 ELSE l
    IN  [grown EXCEPT !.items[l.count + 1] = val, !.count = @ + 1]
InItems(l, idx) == idx >= 0 /\ idx < l.capacity

\* list->push(sp[-1-i]) for i = n - 1 down to 0
RECURSIVE PushAll(_, _)
PushAll(l, i) == IF i < 0 THEN l ELSE PushAll(ObjList_push(l, Read(sp - 1 - i)), i - 1)

DoBuildList ==
    /\ Running(OP_BUILD_LIST)
    /\ LET n == Byte(ip, 1)
       IN  /\ Store(sp - n, val_list(Len(lists) + 1), sp - n + 1, At(ip, 2))
           /\ lists' = Append(lists, PushAll(ObjList_create, n - 1))
    /\ UNCHANGED <<regs, frame_vars, globals, iter_vars, try_vars, output, obj_count,
                   g_strings, jit_vars,
                   ghost_vars, env_vars>>

DoGetIndex ==
    /\ Running(OP_GET_INDEX)
    /\ LET idx == as_int(Read(sp - 1))
           obj == Read(sp - 2)
       IN  IF ~IsList(obj)
           THEN /\ sp' = sp - 1
                /\ ip' = At(ip, 1)
                /\ UNCHANGED <<stack, status, err>>
           ELSE IF InItems(as_list(obj), idx)
           THEN Store(sp - 2, as_list(obj).items[idx + 1], sp - 1, At(ip, 1))
           ELSE Stray("load outside items[]")
    /\ OnlyStack

DoSetIndex ==
    /\ Running(OP_SET_INDEX)
    /\ LET val == Read(sp - 1)
           idx == as_int(Read(sp - 2))
           obj == Read(sp - 3)
       IN  IF IsList(obj) /\ ~InItems(as_list(obj), idx)
           THEN Stray("store outside items[]") /\ UNCHANGED lists
           ELSE /\ sp' = sp - 2
                /\ ip' = At(ip, 1)
                /\ lists' = IF IsList(obj)
                             THEN [lists EXCEPT ![obj.obj.id].items[idx + 1] = val]
                             ELSE lists
                /\ UNCHANGED <<stack, status, err>>
    /\ UNCHANGED <<regs, frame_vars, globals, iter_vars, try_vars, output, obj_count,
                   g_strings, jit_vars,
                   ghost_vars, env_vars>>

\* the length DO_BUILTIN_LEN computes for a range
RangeLen(r) ==
    IF r.step > 0 /\ r.stop > r.start
    THEN TruncDiv(r.stop - r.start + r.step - 1, r.step)
    ELSE IF r.step < 0 /\ r.stop < r.start
    THEN TruncDiv(r.start - r.stop - r.step - 1, -r.step)
    ELSE 0
DoBuiltinLen ==
    /\ Running(OP_BUILTIN_LEN)
    /\ LET v == PEEK(0)
       IN  Store(sp - 1,
                 IF ~is_obj(v) THEN val_int(0)
                 ELSE IF IsList(v) THEN val_int(as_list(v).count)
                 ELSE IF IsString(v) THEN val_int(Len(v.obj.chars))
                 ELSE IF IsRange(v) THEN val_int(RangeLen(v.obj))
                 ELSE v,
                 sp, At(ip, 1))
    /\ OnlyStack

\* item = POP(); as_list(PEEK(0))->push(item): the target is not tested for a list
DoBuiltinAppend ==
    /\ Running(OP_BUILTIN_APPEND)
    /\ LET item == Read(sp - 1)
           target == Read(sp - 2)
       IN  IF ~IsList(target)
           THEN Stray("push through a pointer to another object type") /\ UNCHANGED lists
           ELSE /\ lists' = [lists EXCEPT ![target.obj.id] = ObjList_push(@, item)]
                /\ sp' = sp - 1
                /\ ip' = At(ip, 1)
                /\ UNCHANGED <<stack, status, err>>
    /\ UNCHANGED <<regs, frame_vars, globals, iter_vars, try_vars, output, obj_count,
                   g_strings, jit_vars, ghost_vars, env_vars>>

(***************************************************************************)
(* DO_LOOP.  The loop profile is a set of counters that nothing reads back *)
(* and is left out.  The first recogniser (three nested ranges) scans      *)
(* "loop_body + scan < ip - off", which is loop_body itself: its scan is   *)
(* empty, found_counting stays false and the recogniser never acts.  The   *)
(* trailing "iter_count >= 2" block computes locals and changes nothing.   *)
(***************************************************************************)
\* the product recogniser's scan of p[0 .. min(30, len) - 1]
RECURSIVE MulThenAdd(_, _, _, _)
MulThenAdd(p, i, len, found_mul) ==
    IF i >= 30 \/ i >= len THEN FALSE
    ELSE IF Byte(p, i) = OP_ADD /\ found_mul THEN TRUE
    ELSE MulThenAdd(p, i + 1, len, found_mul \/ Byte(p, i) = OP_MUL)
RECURSIVE FirstAdd(_, _, _)
FirstAdd(p, i, len) ==
    IF i >= 30 \/ i >= len THEN -1
    ELSE IF Byte(p, i) = OP_ADD THEN i
    ELSE FirstAdd(p, i + 1, len)

\* Pattern 1: s (global) += i;  Pattern 2: s (local) += i;  Pattern 3: s (global) += c
Pattern1(p) ==
    /\ Byte(p, 3) = OP_SET_LOCAL /\ Byte(p, 5) = OP_POP /\ Byte(p, 6) = OP_GET_GLOBAL
    /\ Byte(p, 9) = OP_GET_LOCAL /\ Byte(p, 10) = Byte(p, 4) /\ Byte(p, 11) = OP_ADD
    /\ Byte(p, 12) = OP_SET_GLOBAL /\ Byte(p, 15) = OP_POP
Pattern2(p) ==
    /\ Byte(p, 3) = OP_SET_LOCAL /\ Byte(p, 5) = OP_POP /\ Byte(p, 6) = OP_GET_LOCAL
    /\ Byte(p, 8) = OP_GET_LOCAL /\ Byte(p, 9) = Byte(p, 4) /\ Byte(p, 10) = OP_ADD
    /\ Byte(p, 11) = OP_SET_LOCAL /\ Byte(p, 12) = Byte(p, 7) /\ Byte(p, 13) = OP_POP
Pattern3(p) ==
    /\ Byte(p, 3) = OP_SET_LOCAL /\ Byte(p, 5) = OP_POP /\ Byte(p, 6) = OP_GET_GLOBAL
    /\ Byte(p, 9) = OP_CONST_INT /\ Byte(p, 11) = OP_ADD /\ Byte(p, 12) = OP_SET_GLOBAL

\* the sum the series formula adds for the iterator (step > 0 here)
SeriesSum(it) ==
    IF it.step = 1
    THEN TruncDiv((it.stop - it.cur) * (it.cur + it.stop - 1), 2)
    ELSE LET n == TruncDiv(it.stop - it.cur + it.step - 1, it.step)
             last == it.cur + (n - 1) * it.step
         IN  TruncDiv(n * (it.cur + last), 2)

DoLoop ==
    /\ Running(OP_LOOP)
    /\ LET off == Short(ip, 1)
           after == At(ip, 3)
           p == At(after, -off)
           n == iter_count
           it == iterators[n - 1]
           iters_left == IF it.step > 0 THEN TruncDiv(it.stop - it.cur, it.step) ELSE 0
           outer == iterators[n - 2]
           product == /\ n >= 2 /\ iters_left > 5 /\ Byte(p, 0) = OP_ITER_NEXT
                      /\ outer.step = 1 /\ it.step = 1 /\ outer.cur = 0
                      /\ MulThenAdd(p, 0, off, FALSE)
           total == Triangle(outer.stop) * Triangle(it.stop)
           a == FirstAdd(p, 0, off)
           done == SkipLoop(after)
           skipped == [iterators EXCEPT ![n - 1].cur = it.stop, ![n - 2].cur = outer.stop]
           series == iters_left > 50 /\ Byte(p, 0) = OP_ITER_NEXT
           gname == StringOf(ConstantAt(chunk, Short(p, 7)))
           spent == [iterators EXCEPT ![n - 1].cur = it.stop]
       IN  IF n <= 0
           THEN /\ ip' = p
                /\ UNCHANGED <<stack, sp, status, err, iter_vars, globals>>
           ELSE IF ~InIters(n - 1)
           THEN Stray("load outside iterators[]") /\ UNCHANGED <<iter_vars, globals>>
           ELSE IF product /\ done = NullIp
           THEN Stray("load outside code") /\ UNCHANGED <<iter_vars, globals>>
           ELSE IF product /\ Byte(p, a + 1) = OP_SET_LOCAL
           THEN /\ Store(slots + Byte(p, a + 2), val_int(total), sp, done)
                /\ iterators' = skipped
                /\ iter_count' = n - 2
                /\ UNCHANGED globals
           ELSE IF product /\ Byte(p, a + 1) = OP_SET_GLOBAL /\ ~HasConstant(chunk, Byte(p, a + 2))
           THEN Stray("load outside constants") /\ UNCHANGED <<iter_vars, globals>>
           ELSE IF product
           THEN /\ globals' = IF Byte(p, a + 1) = OP_SET_GLOBAL
                              THEN Bind(globals,
                                        StringOf(ConstantAt(chunk, Byte(p, a + 2))),
                                        val_int(total))
                              ELSE globals
                /\ iterators' = skipped
                /\ iter_count' = n - 2
                /\ ip' = done
                /\ UNCHANGED <<stack, sp, status, err>>
           ELSE IF series /\ (Pattern1(p) \/ (~Pattern2(p) /\ Pattern3(p)))
                          /\ ~HasConstant(chunk, Short(p, 7))
           THEN Stray("load outside constants") /\ UNCHANGED <<iter_vars, globals>>
           ELSE IF series /\ Pattern1(p)
           THEN /\ globals' = Bind(globals, gname,
                       val_int(as_int(Lookup(globals, gname)) + SeriesSum(it)))
                /\ iterators' = spent
                /\ ip' = p
                /\ UNCHANGED <<stack, sp, status, err, iter_count>>
           ELSE IF series /\ Pattern2(p)
           THEN /\ Store(slots + Byte(p, 7),
                         val_int(as_int(Read(slots + Byte(p, 7))) + SeriesSum(it)),
                         sp, p)
                /\ iterators' = spent
                /\ UNCHANGED <<iter_count, globals>>
           ELSE IF series /\ Pattern3(p)
           THEN /\ globals' = Bind(globals, gname,
                       val_int(as_int(Lookup(globals, gname))
                               + Byte(p, 10) * TruncDiv(it.stop - it.cur + it.step - 1,
                                                        it.step)))
                /\ iterators' = spent
                /\ ip' = p
                /\ UNCHANGED <<stack, sp, status, err, iter_count>>
           ELSE /\ ip' = p
                /\ UNCHANGED <<stack, sp, status, err, iter_vars, globals>>
    /\ UNCHANGED <<regs, frame_vars, try_vars, output, heap_vars, ghost_vars, env_vars>>

Next ==
    \/ Run
    \/ DoConst
    \/ DoConstInt
    \/ DoNone
    \/ DoPop
    \/ DoAdd
    \/ DoSub
    \/ DoMul
    \/ DoEq
    \/ DoNe
    \/ DoLt
    \/ DoGt
    \/ DoLe
    \/ DoGe
    \/ DoNeg
    \/ DoGetGlobal
    \/ DoSetGlobal
    \/ DoDefineGlobal
    \/ DoGetLocal
    \/ DoSetLocal
    \/ DoJump
    \/ DoJumpIfFalse
    \/ DoBuiltinSay
    \/ DoTry
    \/ DoCatch
    \/ DoThrow
    \/ DoDiv
    \/ DoMod
    \/ DoCall
    \/ DoReturn
    \/ DoBuiltinRange
    \/ DoIterInit
    \/ DoIterNext
    \/ DoLoop
    \/ DoBuildList
    \/ DoGetIndex
    \/ DoSetIndex
    \/ DoBuiltinStr
    \/ DoBuiltinReadFile
    \/ DoBuiltinLen
    \/ DoBuiltinAppend

Spec == Init /\ [][Next]_vars

(***************************************************************************)
(* The value encoding, bit by bit.  A uint64_t or int64_t is the tuple of   *)
(* its four 16-bit limbs, most significant first, so that 0x7FFC000000000000*)
(* is <<32764, 0, 0, 0>>.  The handlers above use the same encoding through *)
(* the tagged records of val_int, val_obj, ...; this section is the         *)
(* arithmetic of the inline functions themselves.  nanbox is one            *)
(* application of them: [pc, i, v, out, kinds].                             *)
(***************************************************************************)
RECURSIVE And16(_, _)
And16(a, b) ==
    IF a = 0 \/ b = 0 THEN 0
    ELSE (a % 2) * (b % 2) + 2 * And16(a \div 2, b \div 2)
Or16(a, b) == a + b - And16(a, b)
BitAnd(x, y) == [k \in 1 .. 4 |-> And16(x[k], y[k])]
BitOr(x, y) == [k \in 1 .. 4 |-> Or16(x[k], y[k])]

QNAN_BITS == <<32764, 0, 0, 0>>
SIGN_BIT == <<32768, 0, 0, 0>>
TAG_INT == <<1, 0, 0, 0>>
TAG_NONE == <<2, 0, 0, 0>>
TAG_TRUE == <<3, 0, 0, 0>>
TAG_FALSE == <<4, 0, 0, 0>>
TAG_OBJ == SIGN_BIT
INT_MASK == <<0, 65535, 65535, 65535>>
NONE_BITS == BitOr(QNAN_BITS, TAG_NONE)
TRUE_BITS == BitOr(QNAN_BITS, TAG_TRUE)
FALSE_BITS == BitOr(QNAN_BITS, TAG_FALSE)

\* val_int, as_int and the type tests on the bit patterns
val_int_bits(i) == BitOr(BitOr(QNAN_BITS, TAG_INT), BitAnd(i, INT_MASK))
\* an extraction that leaves the upper sixteen bits clear
as_int_unsigned(v) == BitAnd(v, INT_MASK)
as_int_bits(v) ==
    LET i == BitAnd(v, INT_MASK)
    IN  IF BitAnd(i, <<0, 32768, 0, 0>>) # <<0, 0, 0, 0>>
        THEN BitOr(i, <<65535, 0, 0, 0>>)
        ELSE i
is_number_bits(v) == BitAnd(v, QNAN_BITS) # QNAN_BITS
is_int_bits(v) == BitAnd(v, BitOr(QNAN_BITS, TAG_INT)) = BitOr(QNAN_BITS, TAG_INT)
is_none_bits(v) == v = NONE_BITS
is_bool_bits(v) == v = TRUE_BITS \/ v = FALSE_BITS
is_obj_bits(v) == BitAnd(v, BitOr(QNAN_BITS, TAG_OBJ)) = BitOr(QNAN_BITS, TAG_OBJ)
\* the tests a bit pattern satisfies
KindsOf(v) ==
    {k \in {"float", "int", "none", "bool", "obj"} :
        \/ k = "float" /\ is_number_bits(v)
        \/ k = "int" /\ is_int_bits(v)
        \/ k = "none" /\ is_none_bits(v)
        \/ k = "bool" /\ is_bool_bits(v)
        \/ k = "obj" /\ is_obj_bits(v)}

\* the 64-bit words tried: every limb at the ends and the middle of its range, and
\* the three constants
Limbs == {0, 1, 32767, 32768, 65535}
Words == [1 .. 4 -> Limbs] \cup {NONE_BITS, TRUE_BITS, FALSE_BITS}
\* -2^47 <= i <= 2^47 - 1: the upper limb repeats bit 47
InRange48(i) == i[1] = (IF i[2] >= 32768 THEN 65535 ELSE 0)

InitBox ==
    /\ program = P_Say
    /\ junk = VAL_NONE
    /\ Constructed
    /\ \E w \in Words : nanbox = [NoBox EXCEPT !.pc = "input", !.i = w, !.v = w]
    /\ g_interned = <<>>
    /\ patched = NoPatch

\* v = val_int(i)
Encode ==
    /\ nanbox.pc = "input"
    /\ nanbox' = [nanbox EXCEPT !.pc = "encoded", !.v = val_int_bits(nanbox.i)]
\* out = as_int(v)
Decode ==
    /\ nanbox.pc = "encoded"
    /\ nanbox' = [nanbox EXCEPT !.pc = "decoded", !.out = as_int_bits(nanbox.v)]
\* is_number(v), is_int(v), is_none(v), is_bool(v), is_obj(v) of the word itself
Classify ==
    /\ nanbox.pc = "input"
    /\ nanbox' = [nanbox EXCEPT !.pc = "classified", !.kinds = KindsOf(nanbox.v)]

box_vars == <<program, junk, chunk, ip, slots, stack, sp, frames, fp, frame_count,
              globals, iterators, iter_count, try_handlers, try_count,
              output, status, err, obj_count, lists, g_strings, jit_funcs,
              g_call, g_try, g_done, g_throw, g_handlers, g_compiled, g_interned, patched>>
NextBox ==
    \/ Encode /\ UNCHANGED box_vars
    \/ Decode /\ UNCHANGED box_vars
    \/ Classify /\ UNCHANGED box_vars
SpecBox == InitBox /\ [][NextBox]_vars

(***************************************************************************)
(* The string pool on its own: a run of g_strings.intern calls, the        *)
(* content of each call and the object it returned logged in g_interned.   *)
(***************************************************************************)
MaxInterns == 4
Contents == {"", "a", "b", "ab"}
InitPool ==
    /\ program = P_Say
    /\ junk = VAL_NONE
    /\ Constructed
    /\ nanbox = NoBox
    /\ g_interned = <<>>
    /\ patched = NoPatch
Intern ==
    /\ Len(g_interned) < MaxInterns
    /\ \E str \in Contents :
          LET r == intern(g_strings, obj_count, str)
          IN  /\ g_strings' = r.pool
              /\ obj_count' = r.count
              /\ g_interned' = Append(g_interned, [str |-> str, s |-> r.obj])
pool_vars == <<program, junk, chunk, ip, slots, stack, sp, frames, fp, frame_count,
               globals, iterators, iter_count, try_handlers, try_count,
               output, status, err, lists, jit_funcs,
               g_call, g_try, g_done, g_throw, g_handlers, g_compiled, nanbox, patched>>
NextPool == Intern /\ UNCHANGED pool_vars
SpecPool == InitPool /\ [][NextPool]_vars

(***************************************************************************)
(* The concurrency opcodes.  The compiler emits none of them, so they are   *)
(* run from chunks handed to execute directly: some OP_NONE, one of the    *)
(* opcodes, OP_RETURN.                                                     *)
(***************************************************************************)
OP_ATOMIC_LOAD == 138
OP_CHANNEL_RECV == 145
ConcurrencyOps == OP_ATOMIC_LOAD .. OP_CHANNEL_RECV
MaxPrefix == 3
Unavailable == "Concurrency primitives not yet implemented"
StubChunk(op, n) ==
    [code |-> [k \in 1 .. n |-> OP_NONE] \o <<op, OP_RETURN>>,
     constants |-> <<>>, marks |-> {}]
\* FastVM::execute(chunk) entered with a chunk of the kind above
Execute ==
    /\ status = "ready"
    /\ \E op \in ConcurrencyOps : \E n \in 0 .. MaxPrefix :
          LET c == StubChunk(op, n)
          IN  /\ frames' = [frames EXCEPT ![fp] =
                               [chunk |-> c, ip |-> [base |-> c, off |-> 0], slots |-> 0]]
              /\ ip' = [base |-> c, off |-> 0]
              /\ chunk' = c
    /\ frame_count' = 1
    /\ slots' = 0
    /\ status' = "running"
    /\ UNCHANGED <<err, stack, sp, fp, globals, iter_vars, try_vars, output, heap_vars,
                   ghost_vars, env_vars>>
\* a stub that neither reports nor pushes
DoConcurrencySilent ==
    /\ status = "running" /\ Op \in ConcurrencyOps
    /\ ip' = At(ip, 1)
    /\ UNCHANGED <<stack, sp, status, err>>
    /\ OnlyStack
\* DO_ATOMIC_LOAD .. DO_CHANNEL_RECV: std::cerr << ...; PUSH(VAL_NONE)
DoConcurrency ==
    /\ status = "running" /\ Op \in ConcurrencyOps
    /\ IF InStack(sp)
       THEN /\ stack' = [stack EXCEPT ![sp] = VAL_NONE]
            /\ sp' = sp + 1
            /\ ip' = At(ip, 1)
            /\ err' = Unavailable
            /\ UNCHANGED status
       ELSE Stray("store above stack[]")
    /\ OnlyStack
InitStub ==
    /\ program = P_Say
    /\ junk = VAL_NONE
    /\ Constructed
    /\ nanbox = NoBox
    /\ g_interned = <<>>
    /\ patched = NoPatch
NextStub ==
    \/ Execute
    \/ DoNone
    \/ DoConcurrency
    \/ DoReturn
SpecStub == InitStub /\ [][NextStub]_vars

(***************************************************************************)
(* Jumps over code of any size.  patched is one jump of a chunk: its       *)
(* opcode, the place of its operand (for OP_LOOP: the loop start), the     *)
(* code size when the compiler patches it (for OP_LOOP: when emit_loop is  *)
(* called), the operand bytes and the VM's ip.  The bytes in between are   *)
(* left out: neither the compiler nor the VM looks at them here.           *)
(***************************************************************************)
\* places of the operand or the loop start, and numbers of bytes jumped over
HolePlaces == {1, 2, 10}
Distances == {0, 1, 2, 3, 254, 255, 256, 257, 65533, 65534, 65535, 65536, 65537, 65540}
\* emit_jump has written 0xFF 0xFF at `offset`; the code has grown to `size`
Emitted(op, offset, size) ==
    [op |-> op, offset |-> offset, size |-> size, operand |-> <<255, 255>>,
     pc |-> "emitted", ip |-> offset - 1]
\* the loop starts at `start`; the body ends at `size`, where the OP_LOOP goes
Looping(start, size) ==
    [op |-> OP_LOOP, offset |-> start, size |-> size, operand |-> <<>>,
     pc |-> "emitted", ip |-> size]
InitJump ==
    /\ program = P_Say
    /\ junk = VAL_NONE
    /\ Constructed
    /\ nanbox = NoBox
    /\ g_interned = <<>>
    /\ patched \in {Emitted(op, o, o + 2 + d) :
                        op \in {OP_JUMP, OP_JUMP_IF_FALSE}, o \in HolePlaces, d \in Distances}
                   \cup {Looping(o - 1, o - 1 + d) : o \in HolePlaces, d \in Distances}
\* patch_jump(offset) with chunk->code.size() = size
PatchJump ==
    /\ patched.pc = "emitted" /\ patched.op # OP_LOOP
    /\ patched' = [patched EXCEPT !.pc = "patched",
                                   !.operand = jump_operand(patched.size, patched.offset)]
\* emit_loop(start): emit(OP_LOOP), then the two bytes
EmitLoop ==
    /\ patched.pc = "emitted" /\ patched.op = OP_LOOP
    /\ patched' = [patched EXCEPT !.pc = "patched",
                                   !.operand = loop_operand(patched.size + 1, patched.offset)]
\* DO_JUMP, and DO_JUMP_IF_FALSE on a falsy value: off = READ_SHORT(); ip += off
TakeJump ==
    /\ patched.pc = "patched" /\ patched.op # OP_LOOP
    /\ patched' = [patched EXCEPT !.pc = "landed",
                       !.ip = @ + 3 + ReadShort(patched.operand[1], patched.operand[2])]
\* DO_LOOP with no iterator: off = READ_SHORT(); ip = ip - off
TakeLoop ==
    /\ patched.pc = "patched" /\ patched.op = OP_LOOP
    /\ patched' = [patched EXCEPT !.pc = "landed",
                       !.ip = @ + 3 - ReadShort(patched.operand[1], patched.operand[2])]
jump_vars == <<program, junk, chunk, ip, slots, stack, sp, frames, fp, frame_count,
               globals, iterators, iter_count, try_handlers, try_count,
               output, status, err, obj_count, lists, g_strings, jit_funcs,
               g_call, g_try, g_done, g_throw, g_handlers, g_compiled, nanbox,
               g_interned>>
NextJump ==
    \/ PatchJump /\ UNCHANGED jump_vars
    \/ EmitLoop /\ UNCHANGED jump_vars
    \/ TakeJump /\ UNCHANGED jump_vars
    \/ TakeLoop /\ UNCHANGED jump_vars
SpecJump == InitJump /\ [][NextJump]_vars

(***************************************************************************)
(* Properties.                                                             *)
(***************************************************************************)
\* programs of integer literals, globals, arithmetic, comparisons, assignment,
\* if/else, while, for over range, say and functions not named fib or is_prime
ProgramsC1 == {P_Say, P_Arith, P_Div, P_Loop}

\* C1: for a program of ProgramsC1, the lines the FastVM has printed when the
\* compiled program finishes are exactly the lines the tree-walking
\* Interpreter prints for the same syntax tree.
C1_SameOutput ==
    (program \in ProgramsC1 /\ status = "done") => output = interpret(program).out

\* C2: when a bytecode function called with argc arguments executes RETURN, the
\* caller resumes with frame_count and fp as they were before the CALL, ip at
\* the instruction after the CALL, sp exactly argc below its value before the
\* CALL, and the return value in the slot the callee value occupied.
C2_ReturnRestores ==
    [][(Running(OP_RETURN) /\ frame_count > 1 /\ InFrames(fp) /\ g_call[fp].valid) =>
          LET c == g_call[fp]
          IN  /\ status' = "running"
              /\ frame_count' = c.frame_count
              /\ fp' = c.fp
              /\ ip' = c.ip
              /\ sp' = c.sp - c.argc
              /\ stack'[c.sp - c.argc - 1] = Read(sp - 1)]_vars

\* C3: after a try/catch statement whose try block divided by zero, sp equals
\* the sp its OP_TRY saw, however often the statement is repeated.
C3_DepthRestored ==
    (g_done.valid /\ g_done.cause = "div") => g_done.sp_after = g_done.sp_before

\* OP_THROW, or OP_DIV with a zero divisor
Raising == Running(OP_THROW) \/ (Running(OP_DIV) /\ ZeroDivisor(Read(sp - 1)))

\* C4: a raise with n >= 1 handlers installed goes to the catch target of the
\* newest handler with sp and fp as its OP_TRY snapshotted them and removes
\* one handler; once the catch block is entered, n - 1 handlers remain.
C4_OneHandlerRemoved ==
    [][/\ (Raising /\ try_count >= 1) =>
             LET h == try_handlers[try_count - 1]
             IN  /\ ip' = h.catch_ip
                 /\ sp' = h.saved_sp
                 /\ fp' = h.saved_fp
                 /\ try_count' = try_count - 1
       /\ (Running(OP_CATCH) /\ g_throw.valid /\ ip = g_throw.h.catch_ip) =>
             try_count' = g_throw.n - 1]_vars

\* C5: after a try/catch statement whose try block did not throw, the handler
\* stack is as deep as it was before the statement's OP_TRY.
C5_HandlerRemoved ==
    (g_done.valid /\ g_done.cause = "none") => g_done.tc_after = g_done.tc_before

\* C6: when a throw in a called function is caught by a handler of a calling
\* frame, the catch block runs with the chunk, the locals base and the frame
\* count the VM had at that handler's OP_TRY.
C6_CatchInTryFrame ==
    [][(Running(OP_THROW) /\ try_count >= 1
            /\ fp > try_handlers[try_count - 1].saved_fp) =>
          LET at_try == g_handlers[try_count - 1]
          IN  /\ chunk' = at_try.chunk
              /\ slots' = at_try.slots
              /\ frame_count' = at_try.frame_count]_vars

\* C7: an integer OP_MOD whose divisor is zero, with a handler installed, goes
\* to that handler's catch target and the VM keeps running, as for OP_THROW.
C7_ModuloZeroCaught ==
    [][(Running(OP_MOD) /\ is_int(Read(sp - 1)) /\ as_int(Read(sp - 1)) = 0
            /\ try_count >= 1) =>
          /\ status' = "running"
          /\ ip' = try_handlers[try_count - 1].catch_ip
          /\ try_count' = try_count - 1]_vars

ProgramsC9 == {P_Deep1, P_Deep4}

\* C9: a program that recurses without bound never stores outside stack[] or
\* frames[]: the frame check of OP_CALL ends it first.
C9_OverflowChecked == program \in ProgramsC9 => status # "corrupt"

\* the callee of the OP_CALL at ip is a bytecode function the VM runs itself
CallsBytecode ==
    LET argc == Byte(ip, 1)
        callee == Read(sp - 1 - argc)
    IN  /\ Running(OP_CALL)
        /\ is_obj(callee)
        /\ obj_type(callee) = "FUNCTION"
        /\ ~(callee.obj.name \in {"fib", "is_prime"} /\ argc = 1)

\* C10: frame_count never exceeds FRAMES_MAX, a running VM holds at most
\* FRAMES_MAX - 2 frames, and an OP_CALL at that limit exits the process with
\* the handler stack untouched and without moving ip to a catch target.
C10_FramesBounded ==
    /\ [](frame_count <= FRAMES_MAX /\ (status = "running" => frame_count <= FRAMES_MAX - 2))
    /\ [][(CallsBytecode /\ frame_count = FRAMES_MAX - 2) =>
             /\ status' = "exit"
             /\ try_count' = try_count
             /\ ip' = ip]_vars

\* the frame check has ended a run whose OP_CALL was inside a try block
C10_Witness == status = "exit" /\ err = "Stack overflow!" /\ try_count >= 1

\* C11: entering a for-loop (ITER_INIT) while the iterator stack holds its full
\* capacity is a checked fatal condition: the step terminates the VM and no
\* iterator record is written past the end of iterators[].
C11_IterOverflowChecked ==
    [][(Running(OP_ITER_INIT) /\ iter_count >= ITERS_MAX)
       => status' \in {"exit", "error"}]_vars

\* C12: executing TRY while the handler stack holds its full capacity is a
\* checked fatal condition: the step terminates the VM and the try block does
\* not run without its handler.
C12_TryOverflowChecked ==
    [][(Running(OP_TRY) /\ try_count >= TRY_MAX)
       => status' \in {"exit", "error"}]_vars

\* C13: a call whose argument count differs from the callee's declared arity
\* is rejected: the step does not enter the callee's body.
C13_ArityChecked ==
    [][LET argc == Byte(ip, 1)
           func == Read(sp - 1 - argc).obj
       IN  (CallsBytecode /\ argc # func.arity)
              => ~(status' = "running" /\ ip' = [base |-> func.chunk, off |-> 0])]_vars

\* C14: CALL on a value that is not a function ends the process in that step:
\* no frame is pushed, ip does not move and no handler is consumed.
C14_NonFunctionExits ==
    [][LET callee == Read(sp - 1 - Byte(ip, 1))
       IN  (Running(OP_CALL) /\ ~(is_obj(callee) /\ obj_type(callee) = "FUNCTION"))
              => /\ status' = "exit"
                 /\ fp' = fp /\ frame_count' = frame_count
                 /\ ip' = ip /\ try_count' = try_count]_vars

\* an indexed read or store is about to act on a list with an index outside
\* [0, count)
OutOfBounds ==
    \/ /\ Running(OP_GET_INDEX) /\ IsList(Read(sp - 2))
       /\ ~(as_int(Read(sp - 1)) >= 0 /\ as_int(Read(sp - 1)) < as_list(Read(sp - 2)).count)
    \/ /\ Running(OP_SET_INDEX) /\ IsList(Read(sp - 3))
       /\ ~(as_int(Read(sp - 2)) >= 0 /\ as_int(Read(sp - 2)) < as_list(Read(sp - 3)).count)

\* C15: an indexed read or store outside [0, length) fails: the instruction does
\* not complete as an ordinary step, nothing outside the list's elements is
\* read or written, and the list is unchanged.
C15_IndexChecked ==
    [][OutOfBounds => /\ status' \in {"exit", "error"}
                      /\ lists' = lists]_vars

\* the elements of range(start, stop, step), in order
RECURSIVE ArithSeq(_, _, _)
ArithSeq(start, stop, step) ==
    IF (step > 0 /\ start < stop) \/ (step < 0 /\ start > stop)
    THEN <<start>> \o ArithSeq(start + step, stop, step)
    ELSE <<>>
\* what say prints for each integer of a sequence
Said(xs) == [k \in 1 .. Len(xs) |-> IntToString(xs[k])]

\* C16: a for-loop over a range whose body is no accelerator template runs its
\* body once per element of the range, in order, with the loop variable bound
\* to the element: P_Ranges prints exactly the elements of its four ranges, and
\* P_NestSay prints i * j + 1 for every i and j of range(6) x range(6) and then
\* the untouched t.
C16_OncePerElement ==
    /\ (program = P_Ranges /\ status \notin {"ready", "running"})
          => /\ status = "done"
             /\ output = Said(ArithSeq(0, 0, 1) \o ArithSeq(5, 5, 1)
                               \o ArithSeq(5, 0, -1) \o ArithSeq(1, 6, 2))
    /\ (program = P_NestSay /\ status \notin {"ready", "running"})
          => /\ status = "done"
             /\ output = [k \in 1 .. 36 |->
                             IntToString(((k - 1) \div 6) * ((k - 1) % 6) + 1)]
                          \o <<"0">>

\* start + (start + 1) + ... + (stop - 1), every element added once (the
\* range is halved so that the evaluation stays shallow)
RECURSIVE SumRange(_, _)
SumRange(start, stop) ==
    IF start >= stop THEN 0
    ELSE IF stop - start = 1 THEN start
    ELSE LET mid == start + (stop - start) \div 2
         IN  SumRange(start, mid) + SumRange(mid, stop)
Finished == status \notin {"ready", "running"}

\* C17: after a for-loop over a step-1 range whose body is exactly s <- s + i,
\* s (a global or a local slot) is its initial value plus the sum of the
\* range's elements, for every iteration count, also when the loop is itself
\* the body of another loop.
C17_SumOfRange ==
    /\ \A a \in Acc0, n \in SumCounts :
          (program \in {P_SumGlobal(a, n), P_SumLocal(a, n)} /\ Finished)
             => status = "done" /\ output = <<IntToString(a + SumRange(0, n))>>
    /\ (program = P_SumNested /\ Finished)
          => status = "done"
             /\ output = <<IntToString(6 * SumRange(0, 6))>>

\* the number of elements of range(start, stop, step), step > 0
CountRange(start, stop, step) ==
    Cardinality({x \in start .. stop - 1 : (x - start) % step = 0})

\* C18: after a for-loop over a positive-step range whose body is exactly
\* s <- s + c (c an integer literal), s is its initial value plus c times the
\* number of elements of the range, also when the loop is itself the body of
\* another loop.
C18_CountTimesConstant ==
    /\ \A t \in CountCases :
          (program = P_Count(t[1], t[2], t[3], t[4], t[5]) /\ Finished)
             => status = "done"
                /\ output = <<IntToString(t[1] + t[2] * CountRange(t[3], t[4], t[5]))>>
    /\ (program = P_CountNested /\ Finished)
          => status = "done"
             /\ output = <<IntToString(6 * 9 * CountRange(0, 6, 1))>>

\* C19: after three nested loops over range(A), range(B), range(C) whose
\* innermost body is exactly t <- t + c, t is its initial value plus
\* A * B * C * c.
C19_TripleCount ==
    \A t \in TripleCases :
        (program = P_Triple(t[1], t[2], t[3], t[4], t[5]) /\ Finished)
           => status = "done"
              /\ output = <<IntToString(t[1] + t[3] * t[4] * t[5] * t[2])>>

\* C20: after two nested loops over range(N) and range(M) whose inner body is
\* exactly s <- s + i * j, s is its initial value plus
\* (0 + ... + (N - 1)) * (0 + ... + (M - 1)).
C20_ProductOfSums ==
    \A t \in ProductCases :
        (program = P_Product(t[1], t[2], t[3]) /\ Finished)
           => status = "done"
              /\ output = <<IntToString(t[1] + SumRange(0, t[2]) * SumRange(0, t[3]))>>

\* C21: when a loop body holds a second statement besides the accumulate statement,
\* both statements take effect once per iteration: after the loop every variable
\* has the value that full iteration produces.
C21_EveryStatementCounts ==
    /\ \A n \in TwoCounts :
          /\ (program = P_TwoStmt(n) /\ Finished)
                => output = <<IntToString(SumRange(0, n)), IntToString(2 * n)>>
          /\ (program = P_TwoCount(n) /\ Finished)
                => output = <<IntToString(n), IntToString(2 * n)>>
    /\ (program = P_TripleTwo /\ Finished) => output = <<"8", "8">>

\* the callee of the CALL about to run is a function of this name taking one
\* integer argument in lo .. hi
CallsNamed(name, lo, hi) ==
    /\ Running(OP_CALL) /\ Byte(ip, 1) = 1
    /\ is_obj(Read(sp - 2)) /\ obj_type(Read(sp - 2)) = "FUNCTION"
    /\ Read(sp - 2).obj.name = name
    /\ Read(sp - 1).tag = "int" /\ as_int(Read(sp - 1)) \in lo .. hi

\* fib(0) = 0, fib(1) = 1, fib(n) = fib(n - 1) + fib(n - 2): <<fib(n), fib(n + 1)>>
RECURSIVE FibPair(_)
FibPair(n) ==
    IF n = 0 THEN <<0, 1>>
    ELSE LET q == FibPair(n - 1) IN <<q[2], q[1] + q[2]>>
Fibonacci(n) == FibPair(n)[1]

\* C22: a one-argument call fib(n) with n in 0 .. 30 leaves the n-th Fibonacci
\* number in place of the callee and its argument.
C22_FibNative ==
    [][CallsNamed("fib", 0, FIB_MAX)
          => /\ sp' = sp - 1
             /\ stack'[sp - 2] = val_int(Fibonacci(as_int(Read(sp - 1))))]_vars
C22_Witness ==
    /\ program = P_FibTo /\ status = "done"
    /\ Len(output) = FIB_MAX + 1 /\ output[31] = "832040"

\* trial division
IsPrime(n) == n >= 2 /\ \A d \in 2 .. (n - 1) : n % d # 0

\* C23: a one-argument call is_prime(n) with n in 0 .. 100 leaves true when n is
\* prime by trial division and false otherwise.
C23_IsPrimeNative ==
    [][CallsNamed("is_prime", 0, PRIME_MAX)
          => /\ sp' = sp - 1
             /\ stack'[sp - 2] = Bool(IsPrime(as_int(Read(sp - 1))))]_vars
C23_Witness ==
    /\ program = P_PrimeTo /\ status = "done" /\ Len(output) = PRIME_MAX + 1
    /\ output[1] = "no" /\ output[2] = "no" /\ output[3] = "yes"
    /\ output[98] = "yes" /\ output[101] = "no"

\* the names DO_CALL intercepts
Intercepted == {"fib", "is_prime"}
\* the CALL about to run has one argument and a callee function of this name
CallsOneArg(name) ==
    /\ Running(OP_CALL) /\ Byte(ip, 1) = 1
    /\ is_obj(Read(sp - 2)) /\ obj_type(Read(sp - 2)) = "FUNCTION"
    /\ Read(sp - 2).obj.name = name
Occurrences(seq, x) == Cardinality({k \in 1 .. Len(seq) : seq[k] = x})

C25_IntRoundTrip ==
    (nanbox.pc = "decoded" /\ InRange48(nanbox.i)) => nanbox.out = nanbox.i
\* -1 came back as -1
C25_Witness ==
    /\ nanbox.pc = "decoded" /\ nanbox.i = <<65535, 65535, 65535, 65535>>
    /\ nanbox.v = <<32765, 65535, 65535, 65535>> /\ nanbox.out = nanbox.i

\* C26: the patterns of none, true and false are pairwise distinct; true and false
\* pass the boolean test and no other, none passes the none test and no other.
C26_OneKindEach ==
    /\ NONE_BITS # TRUE_BITS /\ NONE_BITS # FALSE_BITS /\ TRUE_BITS # FALSE_BITS
    /\ nanbox.pc = "classified"
          => /\ nanbox.v \in {TRUE_BITS, FALSE_BITS} => nanbox.kinds = {"bool"}
             /\ nanbox.v = NONE_BITS => nanbox.kinds = {"none"}

\* C27: interning equal contents, whatever is interned in between, returns the same
\* object, interning different contents returns different objects, and the pool
\* holds one instance per content.
C27_OneInstancePerContent ==
    /\ \A i, j \in DOMAIN g_interned :
          (g_interned[i].str = g_interned[j].str) <=> (g_interned[i].s.id = g_interned[j].s.id)
    /\ \A i \in DOMAIN g_interned : g_interned[i].s.chars = g_interned[i].str
    /\ \A e1, e2 \in g_strings : e1.key = e2.key => e1 = e2
\* "a" interned, then "b" and "ab", then "a" again: the first object comes back
C27_Witness ==
    /\ Len(g_interned) = 4
    /\ g_interned[1].str = "a" /\ g_interned[2].str = "b"
    /\ g_interned[3].str = "ab" /\ g_interned[4].str = "a"
    /\ g_interned[4].s = g_interned[1].s
    /\ Cardinality(g_strings) = 3

\* the values the program holds: the stack below sp and the globals
LiveValues ==
    {stack[k] : k \in {j \in 0 .. (sp - 1) : InStack(j)}}
        \cup {globals[n] : n \in DOMAIN globals}
IsInterned(v) == [key |-> v.obj.chars, id |-> v.obj.id] \in g_strings
\* C28: every string value a VM operation produced (by concatenation, by formatting
\* a number, by reading a file) is the pool's instance for its content, so two
\* string values of equal content are one tagged value and == holds between them.
C28_SynthesizedInterned ==
    /\ \A v \in LiveValues : IsString(v) => IsInterned(v)
    /\ \A v, w \in LiveValues :
          IsString(v) /\ IsString(w) /\ v.obj.chars = w.obj.chars
             => v = w /\ fast_eq(v, w) = VAL_TRUE

\* the list object a list value refers to, and the values that refer to it
Refers(v, id) == IsList(v) /\ v.obj.id = id
Aliases(id) == {n \in DOMAIN globals : Refers(globals[n], id)}
\* C29: a list held by two references is one object: an append or an indexed store
\* through one reference changes the object every reference names, also when the
\* append grows the list beyond its capacity, and a length or an indexed read
\* through any reference reads that object.
C29_AliasedListShared ==
    [][/\ (Running(OP_BUILTIN_APPEND) /\ IsList(Read(sp - 2)))
            => LET id == Read(sp - 2).obj.id
                   l == lists[id]
               IN  /\ lists'[id].count = l.count + 1
                   /\ lists'[id].items[l.count + 1] = Read(sp - 1)
                   /\ \A k \in 1 .. l.count : lists'[id].items[k] = l.items[k]
                   /\ globals' = globals
       /\ (Running(OP_SET_INDEX) /\ IsList(Read(sp - 3))
             /\ as_int(Read(sp - 2)) >= 0
             /\ as_int(Read(sp - 2)) < as_list(Read(sp - 3)).count)
            => LET id == Read(sp - 3).obj.id
                   idx == as_int(Read(sp - 2))
                   l == lists[id]
               IN  /\ lists'[id].count = l.count
                   /\ lists'[id].items[idx + 1] = Read(sp - 1)
                   /\ \A k \in 1 .. l.count : k # idx + 1 => lists'[id].items[k] = l.items[k]
                   /\ globals' = globals
       /\ (Running(OP_BUILTIN_LEN) /\ IsList(Read(sp - 1)))
            => stack'[sp - 1] = val_int(lists[Read(sp - 1).obj.id].count)
       /\ (Running(OP_GET_INDEX) /\ IsList(Read(sp - 2))
             /\ as_int(Read(sp - 1)) >= 0
             /\ as_int(Read(sp - 1)) < as_list(Read(sp - 2)).count)
            => stack'[sp - 2] = lists[Read(sp - 2).obj.id].items[as_int(Read(sp - 1)) + 1]
       /\ (Op \notin {OP_BUILTIN_APPEND, OP_SET_INDEX, OP_BUILD_LIST})
            => \A id \in DOMAIN lists : lists'[id] = lists[id]]_vars
\* a and b name one list of 7; through b it was appended to twice, past its
\* capacity of 8, and stored into; the lengths 8 and 9, the ninth element and the
\* stored 50 were read through a
C29_Witness ==
    /\ program = P_Alias /\ status = "done"
    /\ Aliases(1) = {"a", "b"}
    /\ lists[1].count = 9 /\ lists[1].capacity = 2 * LIST_CAPACITY
    /\ SubSeq(output, 1, 4) = <<"8", "9", "9", "50">>

\* the program is say(l op r) and has been compiled
Folding == program \in ProgramsC30 /\ status = "running"
FoldTok == program.children[1].children[1].token
FoldLeft == program.children[1].children[1].children[1].num
FoldRight == program.children[1].children[1].children[2].num
\* the code of the expression: the chunk without OP_BUILTIN_SAY, OP_POP, OP_RETURN
ExprCode == SubSeq(chunk.code, 1, Len(chunk.code) - 3)
Arith(tok, l, r) ==
    CASE tok = "PLUS" -> l + r
      [] tok = "MINUS" -> l - r
      [] tok = "MULTIPLY" -> l * r
      [] tok = "DIVIDE" -> TruncDiv(l, r)
      [] tok = "MOD" -> TruncMod(l, r)
ByLiteralZero == FoldTok \in {"DIVIDE", "MOD"} /\ FoldRight = 0
\* code is one constant-load instruction of n, with an immediate or a pool operand
IsLoadOf(code, n) ==
    \/ code = <<OP_CONST_INT, n>>
    \/ /\ Len(code) = 3 /\ code[1] = OP_CONST
       /\ HasConstant(chunk, code[2] + 256 * code[3])
       /\ ConstantAt(chunk, code[2] + 256 * code[3]) = IntegerValue(n)
\* both operand loads, then the runtime instruction
Unfolded ==
    \E i \in 2 .. 3 : \E j \in 2 .. 3 :
        /\ Len(ExprCode) = i + j + 1
        /\ IsLoadOf(SubSeq(ExprCode, 1, i), FoldLeft)
        /\ IsLoadOf(SubSeq(ExprCode, i + 1, i + j), FoldRight)
        /\ ExprCode[i + j + 1] = BinaryOp(FoldTok)
\* C30: for l op r with integer literals l and r and op one of + - * / %, the
\* compiler emits one constant-load instruction holding the result, except for /
\* or % by the literal 0, where it emits both operand loads and the runtime
\* instruction.
C30_FoldsLiterals ==
    Folding => IF ByLiteralZero THEN Unfolded
               ELSE IsLoadOf(ExprCode, Arith(FoldTok, FoldLeft, FoldRight))
\* What the compiler emits: one OP_CONST_INT holding the truncated integer result
\* when that is between 0 and 255; both operand loads and the runtime instruction
\* when it is outside 0..255 or the operator is / or % and the right literal is 0.
FoldsByteResults ==
    Folding => IF ByLiteralZero THEN Unfolded
               ELSE LET result == Arith(FoldTok, FoldLeft, FoldRight)
                    IN  IF result >= 0 /\ result <= 255
                        THEN ExprCode = <<OP_CONST_INT, result>>
                        ELSE Unfolded

\* node holds a break or continue that no loop of the same function body encloses
RECURSIVE StrayBreak(_, _)
StrayBreak(node, in_loop) ==
    IF node.type \in {"BREAK", "CONTINUE"} THEN ~in_loop
    ELSE \E k \in DOMAIN node.children :
            StrayBreak(node.children[k],
                       IF node.type = "FUNCTION" THEN FALSE
                       ELSE IF node.type \in {"WHILE", "FOR", "REPEAT"} /\ k = 2 THEN TRUE
                       ELSE in_loop)
\* C31: a program with a break or continue that is not lexically inside a loop of
\* the same function body (a function literal inside a loop starts a new body) is
\* rejected by the compiler: nothing of it is run.
C31_StrayBreakRejected ==
    (status # "ready" /\ StrayBreak(program, FALSE))
        => status = "compile_error" /\ chunk = NullChunk /\ output = <<>>
\* the break in the body of f, defined inside a while loop, was rejected
C31_Witness ==
    /\ program = P_BreakInFunc /\ status = "compile_error"
    /\ err = "break or continue outside of loop"

\* a concurrency opcode is about to run
Stubbed == status = "running" /\ Op \in ConcurrencyOps
\* C32: a concurrency opcode (atomic load, store, add, compare-and-swap, thread
\* spawn and join, channel send and receive) can always run, reports that
\* concurrency is not available, pushes one none and changes nothing else: no
\* thread is started and nothing is waited for.
C32_StubsReportAndPushNone ==
    /\ [](Stubbed => ENABLED DoConcurrency)
    /\ [][Stubbed => /\ err' = Unavailable
                      /\ status' = "running"
                      /\ sp' = sp + 1
                      /\ stack' = [stack EXCEPT ![sp] = VAL_NONE]
                      /\ ip' = At(ip, 1)
                      /\ UNCHANGED <<regs, frame_vars, globals, iter_vars, try_vars,
                                     output, heap_vars, ghost_vars, env_vars>>]_vars
\* OP_SPAWN_THREAD ran above two values: the report, and a none as third value
C32_Witness ==
    /\ status = "running" /\ Byte(ip, -1) = 142 /\ Op = OP_RETURN
    /\ err = Unavailable
    /\ sp = 3 /\ stack[2] = VAL_NONE

\* the statements of the running chunk that start, or end, at ip
StartingHere == {m \in ip.base.marks : m.start = ip.off}
EndingHere == {m \in ip.base.marks : m.next = ip.off}
\* the current frame is the main program, or a function called with as many
\* arguments as it has parameters
WellCalled ==
    fp > 0 => /\ InFrames(fp) /\ g_call[fp].valid
              /\ is_obj(Read(slots)) /\ obj_type(Read(slots)) = "FUNCTION"
              /\ Read(slots).obj.arity = g_call[fp].argc
\* C33: at every statement boundary of compiled code, before and after each
\* statement of a block (compound assignments, try/catch statements and un-braced
\* bodies included), the operand-stack depth above the frame's base equals the
\* number of locals the compiler tracks there: every statement has net stack
\* effect zero.
C33_DepthIsLocals ==
    (status = "running" /\ WellCalled)
        => \A m \in StartingHere \cup EndingHere : sp - slots = m.locals

\* the for statements of the main program whose body encloses ip
LoopsRunning == {m \in ip.base.marks : m.type = "FOR" /\ m.start < ip.off /\ ip.off < m.next}
\* C34: whenever control has left a for loop, by exhaustion, by break, by a return
\* in the body or by a throw caught outside the loop, the loop's iterator record
\* is gone: at every statement boundary of the main program the iterator-stack
\* depth is the number of for loops being executed there.
C34_IteratorsAreLoops ==
    (status = "running" /\ fp = 0 /\ StartingHere \cup EndingHere # {})
        => iter_count = Cardinality(LoopsRunning)

\* the number of repetitions the program asks for
RepeatCount == program.children[2].children[1].num
\* C35: a repeat n loop ends after starting its body exactly n times, also when
\* the body executes continue: in the programs that count the starts of the body
\* in x, x is n when the loop has ended.
C35_RepeatRunsNTimes ==
    (program \in ProgramsC35 /\ status \notin {"ready", "running"})
        => /\ status = "done"
           /\ "x" \in DOMAIN globals
           /\ globals["x"] = val_int(RepeatCount)

\* what the loops of a list-loop program say when every loop variable takes
\* exactly the values of its range or list, in order
ListLoopSays ==
    CASE program = P_ForList -> <<"7", "8">>
      [] program = P_ForEmpty -> <<"9">>
      [] program = P_ForListAfter -> <<"-3", "-2", "7", "8">>
      [] program = P_ForListAfterUp -> <<"0", "1", "7", "8">>
      [] OTHER -> <<>>
\* C36: a for-loop over a list binds the loop variable to exactly the elements of
\* the list, in index order and once each (never for an empty list), whatever
\* for-loops ran before it: the list-loop programs say the elements and nothing
\* else in the loop.
C36_ListLoopBindsElements ==
    (program \in ProgramsC36 /\ status \notin {"ready", "running"})
        => /\ status = "done"
           /\ output = ListLoopSays

\* the folded expression l op r of a program x <- l  y <- r  f <- l op r  v <- x op y
FoldedExpr == program.children[3].children[2]
\* the compiler replaced it by a constant
WasFolded ==
    LET f == Fold(FoldedExpr.token, FoldedExpr.children[1].num, FoldedExpr.children[2].num)
    IN  f.folded /\ f.result >= 0 /\ f.result <= 255
\* C37: a constant the compiler folds a literal integer expression to is, in value
\* and in kind, what the VM computes for the same operator on variables holding
\* the same integers: f and v are the same value when the program has ended.
C37_FoldedIsRuntimeValue ==
    (program \in ProgramsC37 /\ WasFolded /\ status \notin {"ready", "running"})
        => /\ status = "done"
           /\ {"f", "v"} \subseteq DOMAIN globals
           /\ globals["f"] = globals["v"]
\* the same for the operators other than /
FoldedIsRuntimeValueButDiv ==
    (program \in ProgramsC37 /\ FoldedExpr.token # "DIVIDE") => C37_FoldedIsRuntimeValue

\* the number of iterations of the loop of a program of ProgramsC38
StoreOtherCount == program.children[3].children[1].children[2].num
\* C38: a loop body t <- s + i, which stores to another variable than it reads,
\* is run as under full iteration: after the loop s is unchanged and t holds the
\* value assigned in the last iteration.
C38_StoreToOtherVariable ==
    (program \in ProgramsC38 /\ status \notin {"ready", "running"})
        => /\ status = "done"
           /\ globals["s"] = val_int(5)
           /\ globals["t"] = val_int(5 + StoreOtherCount - 1)

\* i * b + i * (b + 1) + ... + i * (stop - 1)
RECURSIVE InnerSum(_, _, _)
InnerSum(i, j, stop) == IF j >= stop THEN 0 ELSE i * j + InnerSum(i, j + 1, stop)
\* the sum of i * j over the iterations of the loops of P_Nest(a, N, b, M, d)
RECURSIVE NestSum(_, _, _, _, _)
NestSum(a, N, b, M, d) ==
    IF a >= N THEN 0 ELSE InnerSum(a, b, M + d * a) + NestSum(a + 1, N, b, M, d)
\* C39: nested range loops whose inner bound depends on the outer variable, or
\* with a range that does not start at 0, leave in the accumulator the value that
\* executing every iteration gives: s is the sum of i * j over the iterations.
C39_NestedGeneralRanges ==
    \A t \in NestCases :
        (program = P_Nest(t[1], t[2], t[3], t[4], t[5])
            /\ status \notin {"ready", "running"})
        => /\ status = "done"
           /\ globals["s"] = val_int(NestSum(t[1], t[2], t[3], t[4], t[5]))

\* where the compiler aims the jump: the code size at patch_jump, the loop start
Aim == IF patched.op = OP_LOOP THEN patched.offset ELSE patched.size
\* C40: every forward jump the compiler patches and every backward jump it emits
\* lands, when executed, exactly on the instruction it was aimed at, whatever the
\* number of bytes in between.
C40_JumpsLandAsAimed == patched.pc = "landed" => patched.ip = Aim
\* the same for distances that fit in two bytes
JumpsLandBelow64K ==
    (patched.pc = "landed" /\ patched.size - patched.offset < 65530) => patched.ip = Aim

====
